---- MODULE Spec2Model ----
(***************************************************************************)
(* The room lifecycle manager of the matchmaking server                    *)
(* (src/room_routes.py; src/server.py holds the same handlers): the room   *)
(* table game_rooms, the lock room_lock, the expiry sweep and the five     *)
(* request handlers, each run by a request thread.                         *)
(*                                                                         *)
(* Strings are sequences of one-character strings, so that strip(),        *)
(* isdigit() and len() are computed as Python computes them.  Timestamps   *)
(* are whole minutes on the clock.  A handler is a sequence of steps; a    *)
(* step ends at the handler's next access to shared state (the clock, the  *)
(* lock, the table), which is where another thread can interleave.  The    *)
(* body of a `with room_lock:` block is one step: no other step that       *)
(* needs the lock can run inside it.                                       *)
(***************************************************************************)
EXTENDS Integers, Sequences, FiniteSets, TLC

VARIABLES
    game_rooms,   \* room_routes.py:14  code -> room dict
    room_lock,    \* room_routes.py:15  Free, or the thread that holds it
    clock,        \* datetime.now(), in minutes
    pc,           \* per thread: where it stands in its handler
    req,          \* per thread: the request it serves (or last served)
    local,        \* per thread: the handler's local variables
    resp,         \* per thread: the response of its last finished request
    found,        \* per thread (history): what the code of a join or of a
                  \* status update named in the table when the request passed
                  \* its checks
    overlap,      \* per thread (history): the other threads whose joins had
                  \* passed their checks and not yet returned at that moment
    removed,      \* per thread: what its last cleanup_expired_rooms() returned
    last_list,    \* (history) the response of the latest list_rooms and the table
                  \* it read, if no create, join or status update has started
                  \* or written since; NoList otherwise
    quizzes       \* server.py:22  quiz_id -> quiz_data dict

vars == <<game_rooms, room_lock, clock, pc, req, local, resp, found, overlap, removed, last_list,
          quizzes>>

---------------------------------------------------------------------------
(* Bounds of the model.  ROOM_EXPIRY_MINUTES and MAX_PLAYERS_PER_ROOM are  *)
(* the two settings init_room_routes() injects (server.py runs with 30 and *)
(* 10); the model runs with small values of them.                          *)

ROOM_EXPIRY_MINUTES == 1

MAX_PLAYERS_PER_ROOM == 3

MaxClock == 2

Threads == {"t1", "t2"}

Free == "free"

---------------------------------------------------------------------------
(* Strings                                                                 *)

Digits == {"0", "1", "2", "3", "4", "5", "6", "7", "8", "9"}

\* U+00B2 SUPERSCRIPT TWO, one character: str.isdigit() is True of it, and it
\* is not a decimal digit
SuperscriptTwo == "SUPERSCRIPT TWO"

\* the characters of the model's strings of which str.isdigit() is True
DigitChars == Digits \cup {SuperscriptTwo}

\* str.isdigit(): non-empty and every character a digit character
IsDigit(s) == Len(s) > 0 /\ \A i \in 1..Len(s) : s[i] \in DigitChars

RECURSIVE LStrip(_)
LStrip(s) == IF s # <<>> /\ Head(s) = " " THEN LStrip(Tail(s)) ELSE s

RECURSIVE RStrip(_)
RStrip(s) == IF s # <<>> /\ s[Len(s)] = " " THEN RStrip(SubSeq(s, 1, Len(s) - 1)) ELSE s

\* str.strip()
Strip(s) == RStrip(LStrip(s))

\* (mutant) only the length of the code is tested
CodeFormatLengthOnly(s) == Len(s) = 6

\* the test `len(room_code) == 6 and room_code.isdigit()`
CodeFormatOk(s) == Len(s) = 6 /\ IsDigit(s)

\* dict.get(key, default)
DictGet(data, key, default) == IF key \in DOMAIN data THEN data[key] ELSE default

\* `not data`: no JSON body, or an empty object
Falsy(data) == DOMAIN data = {}

\* x in list
InList(x, list) == \E i \in 1..Len(list) : list[i] = x

\* datetime.isoformat(): the timestamp as text
IsoFormat(t) == <<"iso", t>>

Min(a, b) == IF a <= b THEN a ELSE b

---------------------------------------------------------------------------
(* The inputs the model draws from                                         *)

Code1 == <<"0", "0", "0", "0", "0", "7">>
Code2 == <<"4", "2", "4", "2", "4", "2">>

\* (mutant) the generator joins five digits
CodesOfFiveDigits == {<<"0", "0", "0", "0", "7">>, <<"4", "2", "4", "2", "4">>}

\* the codes random.choices(string.digits, k=6) can return, cut down to two
Codes == {Code1, Code2}

BadCode == <<"1", "2", "A", "B", "5", "6">>

\* six characters, none a decimal digit, all digits to str.isdigit()
SuperCode ==
    <<SuperscriptTwo, SuperscriptTwo, SuperscriptTwo,
      SuperscriptTwo, SuperscriptTwo, SuperscriptTwo>>

EmptyBody == [k \in {} |-> <<>>]

Alice == <<"A">>
Bob == <<"B">>
Carol == <<"C">>
Blank == <<" ">>
Host == <<"H", "o", "s", "t">>

Waiting == <<"w", "a", "i", "t", "i", "n", "g">>
Ready == <<"r", "e", "a", "d", "y">>
Playing == <<"p", "l", "a", "y", "i", "n", "g">>
Finished == <<"f", "i", "n", "i", "s", "h", "e", "d">>
Bogus == <<"b", "o", "g", "u", "s">>

\* (mutant) one more word is taken for a status
valid_statuses_and_bogus == {Waiting, Ready, Playing, Finished, Bogus}

\* room_routes.py:235
valid_statuses == {Waiting, Ready, Playing, Finished}

---------------------------------------------------------------------------
(* Responses: jsonify(body), status.  An error response carries the text   *)
(* of its 'error' key; the names are those of the error taxonomy.          *)

MissingBody == "Request body is required"
MissingCode == "room_code is required"
MissingPlayerName == "player_name is required"
InvalidCodeFormat == "Invalid room code format. Must be 6 digits"
RoomNotFound == "Room not found or expired"
DuplicatePlayer == "Player name already exists in this room"
RoomFull == "Room is full"
InvalidStatus == "Invalid status. Must be one of: waiting, ready, playing, finished"

NoBody == [k \in {} |-> <<>>]

\* (mutant) every error is sent as a 400
ErrorAlways400(msg, status) == [status |-> 400, error |-> msg, body |-> NoBody]

Error(msg, status) == [status |-> status, error |-> msg, body |-> NoBody]

Success(body, status) == [status |-> status, error |-> "", body |-> body]

NoResp == [status |-> 0, error |-> "", body |-> NoBody]

---------------------------------------------------------------------------
(* The room table                                                          *)

\* (mutant) the sweep also removes a room at the instant it expires
ExpiredAtBoundary(room, current_time) == current_time >= room.expires_at

\* (mutant) a room is kept for one more minute past its expiry
ExpiredAfterGrace(room, current_time) == current_time > room.expires_at + 1

\* cleanup_expired_rooms: the test that selects a room for removal
Expired(room, current_time) == current_time > room.expires_at

\* cleanup_expired_rooms: the codes collected for removal
ExpiredCodes(rooms, current_time) ==
    {code \in DOMAIN rooms : Expired(rooms[code], current_time)}

\* (mutant) the sweep deletes nothing
SweepNothing(rooms, current_time) == rooms

\* cleanup_expired_rooms: the table after the deletions
SweepExpired(rooms, current_time) ==
    [code \in DOMAIN rooms \ ExpiredCodes(rooms, current_time) |-> rooms[code]]

\* (mutant) the room is stamped as a room created at the first instant
NewRoomWithFirstStamps(room_code, host_name, max_players, created_at) ==
    [code |-> room_code,
     host_name |-> host_name,
     players |-> <<host_name>>,
     created_at |-> 0,
     expires_at |-> ROOM_EXPIRY_MINUTES,
     max_players |-> max_players,
     status |-> Waiting]

\* (mutant) the room is created with no player in it
NewRoomWithoutHost(room_code, host_name, max_players, created_at) ==
    [code |-> room_code,
     host_name |-> host_name,
     players |-> <<>>,
     created_at |-> created_at,
     expires_at |-> created_at + ROOM_EXPIRY_MINUTES,
     max_players |-> max_players,
     status |-> Waiting]

\* create_room: the room dict built at room_routes.py:83-91
NewRoom(room_code, host_name, max_players, created_at) ==
    [code |-> room_code,
     host_name |-> host_name,
     players |-> <<host_name>>,
     created_at |-> created_at,
     expires_at |-> created_at + ROOM_EXPIRY_MINUTES,
     max_players |-> max_players,
     status |-> Waiting]

\* game_rooms[room_code] = room
Insert(rooms, room_code, room) ==
    [code \in DOMAIN rooms \cup {room_code} |->
        IF code = room_code THEN room ELSE rooms[code]]

\* (mutant) the requested capacity is taken as it comes
RequestedMaxPlayers(data) == DictGet(data, "max_players", MAX_PLAYERS_PER_ROOM)

\* create_room: max_players as computed at room_routes.py:76
ClampMaxPlayers(data) ==
    Min(DictGet(data, "max_players", MAX_PLAYERS_PER_ROOM), MAX_PLAYERS_PER_ROOM)

\* create_room: the 201 response
CreateResponse(room) ==
    Success([room_code |-> room.code,
             host_name |-> room.host_name,
             created_at |-> IsoFormat(room.created_at),
             expires_at |-> IsoFormat(room.expires_at),
             max_players |-> room.max_players], 201)

\* (mutant) the code's format is checked before the two required fields
JoinValidateFormatFirst(data) ==
    LET room_code == Strip(DictGet(data, "room_code", <<>>))
        player_name == Strip(DictGet(data, "player_name", <<>>))
    IN  IF Falsy(data) THEN Error(MissingBody, 400)
        ELSE IF ~CodeFormatOk(room_code) THEN Error(InvalidCodeFormat, 400)
        ELSE IF room_code = <<>> THEN Error(MissingCode, 400)
        ELSE IF player_name = <<>> THEN Error(MissingPlayerName, 400)
        ELSE NoResp

\* join_room: the checks made before the lock is taken (room_routes.py:124-139);
\* the error response of the first check that fails, or NoResp
JoinValidate(data) ==
    LET room_code == Strip(DictGet(data, "room_code", <<>>))
        player_name == Strip(DictGet(data, "player_name", <<>>))
    IN  IF Falsy(data) THEN Error(MissingBody, 400)
        ELSE IF room_code = <<>> THEN Error(MissingCode, 400)
        ELSE IF player_name = <<>> THEN Error(MissingPlayerName, 400)
        ELSE IF ~CodeFormatOk(room_code) THEN Error(InvalidCodeFormat, 400)
        ELSE NoResp

\* (mutant) the host is not counted among the members
IsMemberSkipsHost(player_name, room) == InList(player_name, Tail(room.players))

\* join_room: `player_name in room['players']` (room_routes.py:147)
IsMember(player_name, room) == InList(player_name, room.players)

\* (mutant) the room takes one player more than max_players
IsFullOffByOne(room) == Len(room.players) > room.max_players

\* (mutant) the room is measured against the global ceiling
IsFullGlobalCap(room) == Len(room.players) >= MAX_PLAYERS_PER_ROOM

\* (mutant) the room is closed while one slot is still free
IsFullOneEarly(room) == Len(room.players) + 1 >= room.max_players

\* join_room: `len(room['players']) >= room['max_players']` (room_routes.py:150)
IsFull(room) == Len(room.players) >= room.max_players

\* (mutant) the new player is put first
AddPlayerFront(players, player_name) == <<player_name>> \o players

\* join_room: room['players'].append(player_name) (room_routes.py:153)
AddPlayer(players, player_name) == Append(players, player_name)

\* (mutant) a join of a code the table does not hold opens a room under it
JoinLockedOpensRoom(rooms, room_code, player_name) ==
    IF room_code \notin DOMAIN rooms
    THEN [rooms |-> Insert(rooms, room_code,
                           NewRoom(room_code, player_name, MAX_PLAYERS_PER_ROOM, 0)),
          resp |-> Error(RoomNotFound, 404)]
    ELSE LET room == rooms[room_code] IN
        IF IsMember(player_name, room)
        THEN [rooms |-> rooms, resp |-> Error(DuplicatePlayer, 409)]
        ELSE IF IsFull(room)
        THEN [rooms |-> rooms, resp |-> Error(RoomFull, 403)]
        ELSE [rooms |-> [rooms EXCEPT ![room_code].players =
                                          AddPlayer(room.players, player_name)],
              resp |-> Success([room_code |-> room_code], 200)]

\* join_room: the critical section (room_routes.py:141-163): the table and the
\* response it leaves
JoinLocked(rooms, room_code, player_name) ==
    IF room_code \notin DOMAIN rooms
    THEN [rooms |-> rooms, resp |-> Error(RoomNotFound, 404)]
    ELSE LET room == rooms[room_code] IN
        IF IsMember(player_name, room)
        THEN [rooms |-> rooms, resp |-> Error(DuplicatePlayer, 409)]
        ELSE IF IsFull(room)
        THEN [rooms |-> rooms, resp |-> Error(RoomFull, 403)]
        ELSE LET players == AddPlayer(room.players, player_name) IN
            [rooms |-> [rooms EXCEPT ![room_code].players = players],
             resp |-> Success([room_code |-> room_code,
                               player_name |-> player_name,
                               players |-> players,
                               host_name |-> room.host_name,
                               player_count |-> Len(players),
                               max_players |-> room.max_players,
                               status |-> room.status], 200)]

\* get_room_info: the critical section (room_routes.py:188-203)
GetLocked(rooms, room_code) ==
    IF room_code \notin DOMAIN rooms
    THEN Error(RoomNotFound, 404)
    ELSE LET room == rooms[room_code] IN
        Success([room_code |-> room.code,
                 host_name |-> room.host_name,
                 players |-> room.players,
                 player_count |-> Len(room.players),
                 max_players |-> room.max_players,
                 status |-> room.status,
                 created_at |-> IsoFormat(room.created_at),
                 expires_at |-> IsoFormat(room.expires_at)], 200)

\* (mutant) the status is tested before the body
UpdateValidateStatusFirst(room_code, data) ==
    IF ~CodeFormatOk(room_code) THEN Error(InvalidCodeFormat, 400)
    ELSE IF Strip(DictGet(data, "status", <<>>)) \notin valid_statuses
    THEN Error(InvalidStatus, 400)
    ELSE IF Falsy(data) THEN Error(MissingBody, 400)
    ELSE NoResp

\* update_room_status: the checks made before the lock is taken
\* (room_routes.py:225-239)
UpdateValidate(room_code, data) ==
    IF ~CodeFormatOk(room_code) THEN Error(InvalidCodeFormat, 400)
    ELSE IF Falsy(data) THEN Error(MissingBody, 400)
    ELSE IF Strip(DictGet(data, "status", <<>>)) \notin valid_statuses
    THEN Error(InvalidStatus, 400)
    ELSE NoResp

\* (mutant) a finished room takes no other status
UpdateLockedFinishedIsFinal(rooms, room_code, new_status) ==
    IF room_code \notin DOMAIN rooms
    THEN [rooms |-> rooms, resp |-> Error(RoomNotFound, 404)]
    ELSE IF rooms[room_code].status = Finished /\ new_status # Finished
    THEN [rooms |-> rooms, resp |-> Error(InvalidStatus, 400)]
    ELSE [rooms |-> [rooms EXCEPT ![room_code].status = new_status],
          resp |-> Success([room_code |-> room_code,
                            status |-> new_status,
                            message |-> "Room status updated successfully"], 200)]

\* (mutant) the success response is sent and the room keeps its status
UpdateLockedNoStore(rooms, room_code, new_status) ==
    IF room_code \notin DOMAIN rooms
    THEN [rooms |-> rooms, resp |-> Error(RoomNotFound, 404)]
    ELSE [rooms |-> rooms,
          resp |-> Success([room_code |-> room_code,
                            status |-> new_status,
                            message |-> "Room status updated successfully"], 200)]

\* update_room_status: the critical section (room_routes.py:241-253)
UpdateLocked(rooms, room_code, new_status) ==
    IF room_code \notin DOMAIN rooms
    THEN [rooms |-> rooms, resp |-> Error(RoomNotFound, 404)]
    ELSE [rooms |-> [rooms EXCEPT ![room_code].status = new_status],
          resp |-> Success([room_code |-> room_code,
                            status |-> new_status,
                            message |-> "Room status updated successfully"], 200)]

\* (mutant) the summary reports the capacity as the number of players
RoomSummariesCountCapacity(rooms) ==
    {[room_code |-> rooms[code].code,
      host_name |-> rooms[code].host_name,
      player_count |-> rooms[code].max_players,
      max_players |-> rooms[code].max_players,
      status |-> rooms[code].status] : code \in DOMAIN rooms}

\* list_rooms: one summary per room of the table (room_routes.py:270-279).  The
\* list is kept as the set of its entries: the table does not record the
\* insertion order the dict iterates in.
RoomSummaries(rooms) ==
    {[room_code |-> rooms[code].code,
      host_name |-> rooms[code].host_name,
      player_count |-> Len(rooms[code].players),
      max_players |-> rooms[code].max_players,
      status |-> rooms[code].status] : code \in DOMAIN rooms}

\* list_rooms: the 200 response
ListResponse(rooms) ==
    Success([rooms |-> RoomSummaries(rooms),
             total |-> Cardinality(RoomSummaries(rooms))], 200)

---------------------------------------------------------------------------
(* The requests                                                            *)

CreateRequest(data) == [op |-> "create", room_code |-> <<>>, data |-> data]
JoinRequest(data) == [op |-> "join", room_code |-> <<>>, data |-> data]
GetRequest(room_code) == [op |-> "get", room_code |-> room_code, data |-> EmptyBody]
UpdateRequest(room_code, data) == [op |-> "update", room_code |-> room_code, data |-> data]
ListRequest == [op |-> "list", room_code |-> <<>>, data |-> EmptyBody]

\* the requests of the concurrent runs
Requests ==
    {CreateRequest(EmptyBody),
     CreateRequest([max_players |-> 0]),
     JoinRequest([room_code |-> Code1, player_name |-> Bob]),
     GetRequest(Code1),
     UpdateRequest(Code1, [status |-> Ready]),
     ListRequest}

---------------------------------------------------------------------------
(* The threads                                                             *)

NoLocal ==
    [current_time |-> 0, room_code |-> <<>>, player_name |-> <<>>, new_status |-> <<>>,
     host_name |-> <<>>, max_players |-> 0, created_at |-> 0]

NoRoom == [code |-> <<>>]

NoList == [resp |-> NoResp]

\* the history of the latest listing ends with a create, join or status update
ForgetList(op) ==
    last_list' = IF op \in {"create", "join", "update"} THEN NoList ELSE last_list

Init ==
    /\ game_rooms = [code \in {} |-> NoRoom]
    /\ room_lock = Free
    /\ clock = 0
    /\ pc = [t \in Threads |-> "idle"]
    /\ req = [t \in Threads |-> ListRequest]
    /\ local = [t \in Threads |-> NoLocal]
    /\ resp = [t \in Threads |-> NoResp]
    /\ found = [t \in Threads |-> NoRoom]
    /\ overlap = [t \in Threads |-> {}]
    /\ removed = [t \in Threads |-> 0]
    /\ last_list = NoList
    /\ quizzes = [quiz_id \in {} |-> NoRoom]

\* time passes
Tick ==
    /\ clock < MaxClock
    /\ clock' = clock + 1
    /\ UNCHANGED <<game_rooms, room_lock, pc, req, local, resp, found, overlap, removed, last_list,
                   quizzes>>

\* the handler returns response r: its locals are gone
Return(t, r) ==
    /\ pc' = [pc EXCEPT ![t] = "idle"]
    /\ local' = [local EXCEPT ![t] = NoLocal]
    /\ resp' = [resp EXCEPT ![t] = r]

\* the handler goes on to label l with locals loc
Goto(t, l, loc) ==
    /\ pc' = [pc EXCEPT ![t] = l]
    /\ local' = [local EXCEPT ![t] = loc]
    /\ UNCHANGED resp

\* A request r arrives and its handler starts: the first statement of every
\* handler is cleanup_expired_rooms(), whose first statement reads the clock
\* (room_routes.py:41).
Request(t, r) ==
    /\ pc[t] = "idle"
    /\ req' = [req EXCEPT ![t] = r]
    /\ pc' = [pc EXCEPT ![t] = "sweep_acq"]
    /\ local' = [local EXCEPT ![t] = [NoLocal EXCEPT !.current_time = clock]]
    /\ resp' = [resp EXCEPT ![t] = NoResp]
    /\ found' = [found EXCEPT ![t] = NoRoom]
    /\ overlap' = [overlap EXCEPT ![t] = {}]
    /\ removed' = [removed EXCEPT ![t] = 0]
    /\ ForgetList(r.op)
    /\ UNCHANGED <<game_rooms, room_lock, clock, quizzes>>

AcquireLabels == {"sweep_acq", "insert_acq", "join_acq", "get_acq", "update_acq", "list_acq"}

LockedLabel(l) ==
    CASE l = "sweep_acq" -> "sweep_cs"
      [] l = "insert_acq" -> "insert_cs"
      [] l = "join_acq" -> "join_cs"
      [] l = "get_acq" -> "get_cs"
      [] l = "update_acq" -> "update_cs"
      [] l = "list_acq" -> "list_cs"

\* `with room_lock:` is entered: the thread waits until the lock is free
Acquire(t) ==
    /\ pc[t] \in AcquireLabels
    /\ room_lock = Free
    /\ room_lock' = t
    /\ pc' = [pc EXCEPT ![t] = LockedLabel(pc[t])]
    /\ UNCHANGED <<game_rooms, clock, quizzes, req, local, resp, found, overlap, removed, last_list>>

\* (mutant) the handler takes and releases the lock and sweeps nothing
CleanupSkipped(t) ==
    /\ pc[t] = "sweep_cs"
    /\ room_lock = t
    /\ room_lock' = Free
    /\ UNCHANGED <<game_rooms, removed, clock, quizzes, req, last_list>>

\* the body of cleanup_expired_rooms under the lock, the lock's release and the
\* count it returns; current_time is a local of cleanup_expired_rooms and ends
\* with it
Cleanup(t) ==
    /\ pc[t] = "sweep_cs"
    /\ room_lock = t
    /\ game_rooms' = SweepExpired(game_rooms, local[t].current_time)
    /\ removed' = [removed EXCEPT ![t] =
                      Cardinality(ExpiredCodes(game_rooms, local[t].current_time))]
    /\ room_lock' = Free
    /\ UNCHANGED <<clock, quizzes, req, last_list>>

\* create_room, room_routes.py:72-76: the sweep, then the request's fields
CreateSweep(t) ==
    /\ req[t].op = "create"
    /\ Cleanup(t)
    /\ Goto(t, "generate",
            [NoLocal EXCEPT !.host_name = DictGet(req[t].data, "host_name", Host),
                            !.max_players = ClampMaxPlayers(req[t].data)])
    /\ UNCHANGED <<found, overlap>>

\* (mutant) the sample is returned without a look at the table
GenerateAnyCode(t) ==
    /\ pc[t] = "generate"
    /\ \E code \in Codes : Goto(t, "stamp", [local[t] EXCEPT !.room_code = code])
    /\ UNCHANGED <<game_rooms, room_lock, clock, quizzes, req, found, overlap, removed, last_list>>

\* generate_room_code, room_routes.py:33-36: one round of the loop.  The
\* sample is any of Codes; it is returned if the table does not hold it and
\* drawn again otherwise.  The table is read with the lock not held.
GenerateRoomCode(t) ==
    /\ pc[t] = "generate"
    /\ \E code \in Codes :
         IF code \notin DOMAIN game_rooms
         THEN Goto(t, "stamp", [local[t] EXCEPT !.room_code = code])
         ELSE UNCHANGED <<pc, local, resp>>
    /\ UNCHANGED <<game_rooms, room_lock, clock, quizzes, req, found, overlap, removed, last_list>>

\* create_room, room_routes.py:79-80: created_at = datetime.now()
CreateStamp(t) ==
    /\ pc[t] = "stamp"
    /\ Goto(t, "insert_acq", [local[t] EXCEPT !.created_at = clock])
    /\ UNCHANGED <<game_rooms, room_lock, clock, quizzes, req, found, overlap, removed, last_list>>

\* create_room, room_routes.py:82-99: the insertion under the lock, the lock's
\* release and the 201 response
CreateInsert(t) ==
    /\ pc[t] = "insert_cs"
    /\ room_lock = t
    /\ LET room == NewRoom(local[t].room_code, local[t].host_name,
                           local[t].max_players, local[t].created_at)
       IN  /\ game_rooms' = Insert(game_rooms, local[t].room_code, room)
           /\ Return(t, CreateResponse(room))
    /\ room_lock' = Free
    /\ ForgetList(req[t].op)
    /\ UNCHANGED <<clock, quizzes, req, found, overlap, removed>>

\* join_room, room_routes.py:122-139: the sweep, then the checks on the body
JoinSweep(t) ==
    /\ req[t].op = "join"
    /\ Cleanup(t)
    /\ IF JoinValidate(req[t].data) # NoResp
       THEN /\ Return(t, JoinValidate(req[t].data))
            /\ UNCHANGED <<found, overlap>>
       ELSE LET room_code == Strip(req[t].data.room_code) IN
            /\ Goto(t, "join_acq",
                    [NoLocal EXCEPT !.room_code = room_code,
                                    !.player_name = Strip(req[t].data.player_name)])
            /\ found' = [found EXCEPT ![t] =
                            IF room_code \in DOMAIN game_rooms'
                            THEN game_rooms'[room_code] ELSE NoRoom]
            /\ overlap' = [overlap EXCEPT ![t] =
                            {u \in Threads \ {t} : pc[u] \in {"join_acq", "join_cs"}}]

\* (mutant) an error return inside the critical section keeps the lock
JoinRoomKeepsLockOnError(t) ==
    /\ pc[t] = "join_cs"
    /\ room_lock = t
    /\ LET out == JoinLocked(game_rooms, local[t].room_code, local[t].player_name)
       IN  /\ game_rooms' = out.rooms
           /\ Return(t, out.resp)
           /\ room_lock' = IF out.resp.status = 200 THEN Free ELSE t
    /\ ForgetList(req[t].op)
    /\ UNCHANGED <<clock, quizzes, req, found, overlap, removed>>

\* (mutant) the membership and capacity tests are made on the room as it was
\* before the lock was taken
JoinRoomTestsBeforeLock(t) ==
    /\ pc[t] = "join_cs"
    /\ room_lock = t
    /\ LET room_code == local[t].room_code
           player_name == local[t].player_name
           out == IF /\ found[t] # NoRoom
                     /\ room_code \in DOMAIN game_rooms
                     /\ ~IsMember(player_name, found[t])
                     /\ ~IsFull(found[t])
                  THEN [rooms |-> [game_rooms EXCEPT ![room_code].players =
                                      AddPlayer(@, player_name)],
                        resp |-> Success([room_code |-> room_code], 200)]
                  ELSE JoinLocked(game_rooms, room_code, player_name)
       IN  /\ game_rooms' = out.rooms
           /\ Return(t, out.resp)
    /\ room_lock' = Free
    /\ ForgetList(req[t].op)
    /\ UNCHANGED <<clock, quizzes, req, found, overlap, removed>>

\* join_room, room_routes.py:141-163: the critical section
JoinRoom(t) ==
    /\ pc[t] = "join_cs"
    /\ room_lock = t
    /\ LET out == JoinLocked(game_rooms, local[t].room_code, local[t].player_name)
       IN  /\ game_rooms' = out.rooms
           /\ Return(t, out.resp)
    /\ room_lock' = Free
    /\ ForgetList(req[t].op)
    /\ UNCHANGED <<clock, quizzes, req, found, overlap, removed>>

\* get_room_info, room_routes.py:183-186: the sweep, then the check on the code
GetSweep(t) ==
    /\ req[t].op = "get"
    /\ Cleanup(t)
    /\ IF ~CodeFormatOk(req[t].room_code)
       THEN Return(t, Error(InvalidCodeFormat, 400))
       ELSE Goto(t, "get_acq", [NoLocal EXCEPT !.room_code = req[t].room_code])
    /\ UNCHANGED <<found, overlap>>

\* get_room_info, room_routes.py:188-203: the critical section
GetRoom(t) ==
    /\ pc[t] = "get_cs"
    /\ room_lock = t
    /\ Return(t, GetLocked(game_rooms, local[t].room_code))
    /\ room_lock' = Free
    /\ UNCHANGED <<game_rooms, clock, quizzes, req, found, overlap, removed, last_list>>

\* update_room_status, room_routes.py:223-239: the sweep, then the checks
UpdateSweep(t) ==
    /\ req[t].op = "update"
    /\ Cleanup(t)
    /\ IF UpdateValidate(req[t].room_code, req[t].data) # NoResp
       THEN /\ Return(t, UpdateValidate(req[t].room_code, req[t].data))
            /\ UNCHANGED found
       ELSE /\ Goto(t, "update_acq",
                    [NoLocal EXCEPT !.room_code = req[t].room_code,
                                    !.new_status = Strip(req[t].data.status)])
            /\ found' = [found EXCEPT ![t] =
                            IF req[t].room_code \in DOMAIN game_rooms'
                            THEN game_rooms'[req[t].room_code] ELSE NoRoom]
    /\ UNCHANGED overlap

\* update_room_status, room_routes.py:241-253: the critical section
UpdateStatus(t) ==
    /\ pc[t] = "update_cs"
    /\ room_lock = t
    /\ LET out == UpdateLocked(game_rooms, local[t].room_code, local[t].new_status)
       IN  /\ game_rooms' = out.rooms
           /\ Return(t, out.resp)
    /\ room_lock' = Free
    /\ ForgetList(req[t].op)
    /\ UNCHANGED <<clock, quizzes, req, found, overlap, removed>>

\* list_rooms, room_routes.py:267: the sweep
ListSweep(t) ==
    /\ req[t].op = "list"
    /\ Cleanup(t)
    /\ Goto(t, "list_acq", NoLocal)
    /\ UNCHANGED <<found, overlap>>

\* list_rooms, room_routes.py:269-284: the critical section and the response
ListRooms(t) ==
    /\ pc[t] = "list_cs"
    /\ room_lock = t
    /\ Return(t, ListResponse(game_rooms))
    /\ room_lock' = Free
    /\ last_list' = [resp |-> ListResponse(game_rooms), rooms |-> game_rooms]
    /\ UNCHANGED <<game_rooms, clock, quizzes, req, found, overlap, removed>>

\* the steps of create_room
CreateSteps(t) ==
    \/ CreateSweep(t)
    \/ GenerateRoomCode(t)
    \/ CreateStamp(t)
    \/ CreateInsert(t)

\* the steps of join_room
JoinSteps(t) == JoinSweep(t) \/ JoinRoom(t)

\* the steps of get_room_info, update_room_status and list_rooms
OtherSteps(t) ==
    \/ GetSweep(t)
    \/ GetRoom(t)
    \/ UpdateSweep(t)
    \/ UpdateStatus(t)
    \/ ListSweep(t)
    \/ ListRooms(t)

\* a step of thread t, serving requests drawn from R
Step(t, R) ==
    \/ \E r \in R : Request(t, r)
    \/ Acquire(t)
    \/ CreateSteps(t)
    \/ JoinSteps(t)
    \/ OtherSteps(t)

\* request threads run concurrently (the server is threaded) while time passes
Next == Tick \/ \E t \in Threads : Step(t, Requests)

Spec == Init /\ [][Next]_vars

\* Creates and joins only, run concurrently: the requests that race for the
\* slots of a room.
JoinRaceRequests ==
    {CreateRequest([max_players |-> 1]),
     CreateRequest([host_name |-> Alice, max_players |-> 2]),
     JoinRequest([room_code |-> Code1, player_name |-> Bob]),
     JoinRequest([room_code |-> Code1, player_name |-> Carol])}

JoinRaceNext ==
    \/ Tick
    \/ \E t \in Threads :
        \/ \E r \in JoinRaceRequests : Request(t, r)
        \/ Acquire(t)
        \/ CreateSteps(t)
        \/ JoinSteps(t)

JoinRaceSpec == Init /\ [][JoinRaceNext]_vars

\* One request at a time, each served at one instant of the clock: the
\* sequential behaviour of the handlers, over a wider set of requests.
PaddedCode1 == <<" ">> \o Code1 \o <<" ">>
PaddedBob == <<" ">> \o Bob \o <<" ">>
LowerAlice == <<"a">>

SeqJoinBodies ==
    {EmptyBody, [player_name |-> Bob], [room_code |-> Code1]}
    \cup {[room_code |-> c, player_name |-> n] :
            c \in {Code1, PaddedCode1, BadCode, Blank},
            n \in {Alice, LowerAlice, Bob, PaddedBob, Blank}}
    \cup {[room_code |-> SuperCode, player_name |-> n] : n \in {Bob, Blank}}

SeqRequests ==
    {CreateRequest(EmptyBody),
     CreateRequest([host_name |-> Alice, max_players |-> 1]),
     CreateRequest([max_players |-> 0]),
     CreateRequest([max_players |-> MAX_PLAYERS_PER_ROOM + 1])}
    \cup {JoinRequest(d) : d \in SeqJoinBodies}
    \cup {GetRequest(c) : c \in {Code1, BadCode}}
    \cup {UpdateRequest(c, d) :
            c \in {Code1, BadCode},
            d \in {EmptyBody, [status |-> Ready], [status |-> Bogus]}}
    \cup {ListRequest}

Server == CHOOSE t \in Threads : TRUE

SeqNext ==
    \/ pc[Server] = "idle" /\ Tick
    \/ Step(Server, SeqRequests)

SeqSpec == Init /\ [][SeqNext]_vars

\* One request at a time again, over the status updates: every status of the
\* vocabulary, one padded with blanks, one in capitals and one unknown.
PaddedReady == <<" ">> \o Ready \o <<" ">>
UpperReady == <<"R", "E", "A", "D", "Y">>

StatusRequests ==
    {CreateRequest(EmptyBody),
     JoinRequest([room_code |-> Code1, player_name |-> Bob]),
     GetRequest(Code1),
     ListRequest}
    \cup {UpdateRequest(Code1, [status |-> s]) :
            s \in {Waiting, Ready, Playing, Finished, PaddedReady, UpperReady, Bogus}}

StatusNext ==
    \/ pc[Server] = "idle" /\ Tick
    \/ Step(Server, StatusRequests)

StatusSpec == Init /\ [][StatusNext]_vars

\* Creates, status updates and reads only, run concurrently.
StatusRaceRequests ==
    {CreateRequest(EmptyBody),
     UpdateRequest(Code1, [status |-> PaddedReady]),
     UpdateRequest(Code1, [status |-> Bogus]),
     GetRequest(Code1)}

StatusRaceNext ==
    \/ Tick
    \/ \E t \in Threads :
        \/ \E r \in StatusRaceRequests : Request(t, r)
        \/ Acquire(t)
        \/ CreateSteps(t)
        \/ GetSweep(t)
        \/ GetRoom(t)
        \/ UpdateSweep(t)
        \/ UpdateStatus(t)

StatusRaceSpec == Init /\ [][StatusRaceNext]_vars

\* The five handlers run concurrently at one instant of the clock, under fair
\* scheduling: a thread that can take a step of its handler eventually takes
\* it (the interpreter switches threads), and a thread that waits for the lock
\* gets it if the lock is free again and again.  Requests need not keep
\* arriving.  Fairness of the handler steps covers the random draw of
\* generate_room_code: while some code is free, a free code is drawn in the
\* end (as it is with probability 1).
LiveRequests ==
    {CreateRequest(EmptyBody),
     JoinRequest([room_code |-> Code1, player_name |-> Bob]),
     GetRequest(Code1),
     UpdateRequest(Code1, [status |-> Ready]),
     ListRequest}

HandlerStep(t) == CreateSteps(t) \/ JoinSteps(t) \/ OtherSteps(t)

LiveNext == \E t \in Threads : Step(t, LiveRequests)

LiveSpec ==
    /\ Init
    /\ [][LiveNext]_vars
    /\ \A t \in Threads : WF_vars(HandlerStep(t)) /\ SF_vars(Acquire(t))

---------------------------------------------------------------------------
(* Properties                                                              *)

\* thread t takes the step that leaves label l
Leaves(t, l) == pc[t] = l /\ pc'[t] # l

\* the labels at which the thread's next step reads or writes game_rooms
TableLabels ==
    {"sweep_cs", "generate", "insert_cs", "join_cs", "get_cs", "update_cs", "list_cs"}

\* C1: whenever create_room inserts a room, the code it inserts under is not a
\* key of the table at that instant (no create overwrites an existing room).
C1_InsertNeverOverwrites ==
    [][\A t \in Threads :
          Leaves(t, "insert_cs") => local[t].room_code \notin DOMAIN game_rooms]_vars

\* C2: every room of the table has len(players) <= max_players <=
\* MAX_PLAYERS_PER_ROOM.
C2_PlayersWithinCapacity ==
    \A code \in DOMAIN game_rooms :
        /\ Len(game_rooms[code].players) <= game_rooms[code].max_players
        /\ game_rooms[code].max_players <= MAX_PLAYERS_PER_ROOM

\* the rooms the step of thread t that leaves its critical section reads
RoomsRead(t) ==
    IF pc[t] \in {"join_cs", "get_cs", "update_cs"}
    THEN {code \in DOMAIN game_rooms : code = local[t].room_code}
    ELSE IF pc[t] = "list_cs" THEN DOMAIN game_rooms
    ELSE {}

\* C3: whenever join, get, update-status or list reads a room of the table, the
\* room has not expired at that instant.  The claim asks for now < expires_at;
\* stated here with now <= expires_at, which the claim implies, so that the
\* instant now = expires_at (live by the sweep's strict test) does not count
\* against the code.
C3_NoExpiredRoomRead ==
    [][\A t \in Threads :
          pc'[t] # pc[t] =>
              \A code \in RoomsRead(t) : clock <= game_rooms[code].expires_at]_vars

\* C7: a thread whose next step reads or writes the room table holds the room
\* lock.
C7_TableAccessUnderLock ==
    \A t \in Threads : pc[t] \in TableLabels => room_lock = t

\* the code and the player name a join request carries, as join_room trims them
JoinCode(t) == Strip(DictGet(req[t].data, "room_code", <<>>))
JoinName(t) == Strip(DictGet(req[t].data, "player_name", <<>>))

\* C4: a room created at T stays in the table as long as now <= T +
\* ROOM_EXPIRY_MINUTES, and a GetRoom served at the instant now returns the
\* room its code names when now <= T + ROOM_EXPIRY_MINUTES (the instant of
\* expiry included) and RoomNotFound otherwise: at its read no room with
\* now > T + ROOM_EXPIRY_MINUTES is left in the table.
C4_GetRoomUntilExpiry ==
    [][/\ \A code \in DOMAIN game_rooms :
            clock' <= game_rooms[code].created_at + ROOM_EXPIRY_MINUTES
                => /\ code \in DOMAIN game_rooms'
                   /\ game_rooms'[code].created_at = game_rooms[code].created_at
       /\ \A t \in Threads :
            Leaves(t, "get_cs") =>
                LET code == req[t].room_code IN
                /\ \A c \in DOMAIN game_rooms :
                       clock <= game_rooms[c].created_at + ROOM_EXPIRY_MINUTES
                /\ IF code \in DOMAIN game_rooms
                   THEN /\ resp'[t].status = 200
                        /\ resp'[t].body.room_code = code
                        /\ resp'[t].body.created_at = <<"iso", game_rooms[code].created_at>>
                        /\ resp'[t].body.players = game_rooms[code].players
                   ELSE /\ resp'[t].status = 404
                        /\ resp'[t].error = RoomNotFound]_vars

\* C4 witness: a GetRoom served at the very instant now = expires_at has swept
\* and finds its room still in the table.
C4_Witness ==
    \E t \in Threads :
        /\ pc[t] = "get_cs"
        /\ req[t].room_code \in DOMAIN game_rooms
        /\ clock = game_rooms[req[t].room_code].created_at + ROOM_EXPIRY_MINUTES

\* threads t and u have each served a join of a distinct new name, the two
\* joins ran at the same time (one passed its checks while the other was
\* between its checks and its return), both found the same room with exactly
\* one free slot, and the room has not expired
RacedForLastSlot(t, u) ==
    /\ t # u
    /\ (u \in overlap[t] \/ t \in overlap[u])
    /\ pc[t] = "idle" /\ pc[u] = "idle"
    /\ req[t].op = "join" /\ req[u].op = "join"
    /\ resp[t].status # 0 /\ resp[u].status # 0
    /\ found[t] # NoRoom
    /\ found[u] = found[t]
    /\ Len(found[t].players) = found[t].max_players - 1
    /\ JoinName(t) # JoinName(u)
    /\ \A i \in 1..Len(found[t].players) :
           found[t].players[i] # JoinName(t) /\ found[t].players[i] # JoinName(u)
    /\ clock <= found[t].expires_at

\* C5: of two concurrent joins of distinct new names into a live room with one
\* free slot, exactly one succeeds and the other gets RoomFull, and the room
\* ends with len(players) = max_players.
C5_LastSlotRace ==
    \A t, u \in Threads :
        RacedForLastSlot(t, u) =>
            /\ {resp[t].status, resp[u].status} = {200, 403}
            /\ \A v \in {t, u} : resp[v].status = 403 => resp[v].error = RoomFull
            /\ found[t].code \in DOMAIN game_rooms
            /\ Len(game_rooms[found[t].code].players) = found[t].max_players

\* C5 witness: the race has happened; one thread got in and the other got 403.
C5_Witness ==
    \E t, u \in Threads :
        /\ RacedForLastSlot(t, u)
        /\ resp[t].status = 200
        /\ resp[u].status = 403

\* C6: a room with max_players = 1 never holds anyone but its host, and every
\* join of a new name into it returns RoomFull and leaves the table as it is.
C6_NoJoinIntoRoomOfOne ==
    /\ [](\A code \in DOMAIN game_rooms :
            game_rooms[code].max_players = 1
                => game_rooms[code].players = <<game_rooms[code].host_name>>)
    /\ [][\A t \in Threads :
            (/\ Leaves(t, "join_cs")
             /\ JoinCode(t) \in DOMAIN game_rooms
             /\ game_rooms[JoinCode(t)].max_players = 1
             /\ JoinName(t) # game_rooms[JoinCode(t)].host_name)
                => /\ resp'[t].status = 403
                   /\ resp'[t].error = RoomFull
                   /\ game_rooms' = game_rooms]_vars

\* C6 witness: both threads joined a room with max_players = 1 that each found
\* holding only its host, and both got RoomFull.
C6_Witness ==
    \A t \in Threads :
        /\ pc[t] = "idle"
        /\ req[t].op = "join"
        /\ found[t] # NoRoom
        /\ found[t].max_players = 1
        /\ resp[t].error = RoomFull

\* C8 (as claimed): a join whose code is malformed and whose player name is
\* empty is answered InvalidCodeFormat.
C8_MalformedCodeBeforeEmptyName ==
    \A t \in Threads :
        (/\ pc[t] = "idle"
         /\ req[t].op = "join"
         /\ resp[t].status # 0
         /\ JoinCode(t) # <<>>
         /\ ~(Len(JoinCode(t)) = 6 /\ \A i \in 1..6 : JoinCode(t)[i] \in Digits)
         /\ JoinName(t) = <<>>)
            => resp[t].error = InvalidCodeFormat

\* C8 (amended): join_room answers with the first check that fails in the
\* order: body missing or empty (MissingBody), code empty after trimming
\* (MissingCode), player name empty after trimming (MissingPlayerName), code
\* not 6 characters that str.isdigit() takes for digits (InvalidCodeFormat),
\* room not in the table (RoomNotFound),
\* name already a member (DuplicatePlayer), room full (RoomFull); it succeeds
\* only if none fails.
C8_JoinCheckOrder ==
    [][\A t \in Threads :
          LET code == JoinCode(t)
              name == JoinName(t)
              early ==
                  IF DOMAIN req[t].data = {} THEN MissingBody
                  ELSE IF code = <<>> THEN MissingCode
                  ELSE IF name = <<>> THEN MissingPlayerName
                  ELSE IF ~(Len(code) = 6 /\ \A i \in 1..6 : code[i] \in DigitChars)
                  THEN InvalidCodeFormat
                  ELSE ""
              late ==
                  IF code \notin DOMAIN game_rooms THEN RoomNotFound
                  ELSE IF \E i \in 1..Len(game_rooms[code].players) :
                              game_rooms[code].players[i] = name
                  THEN DuplicatePlayer
                  ELSE IF Len(game_rooms[code].players) >= game_rooms[code].max_players
                  THEN RoomFull
                  ELSE ""
          IN  /\ (req[t].op = "join" /\ Leaves(t, "sweep_cs")) =>
                    IF early # ""
                    THEN pc'[t] = "idle" /\ resp'[t].error = early /\ resp'[t].status = 400
                    ELSE pc'[t] = "join_acq"
              /\ Leaves(t, "join_cs") =>
                    /\ early = ""
                    /\ resp'[t].error = late
                    /\ (late = "") = (resp'[t].status = 200)]_vars

\* C8 witness: a join with a malformed code and a blank player name has been
\* answered MissingPlayerName.
C8_Witness ==
    \E t \in Threads :
        /\ pc[t] = "idle"
        /\ req[t].op = "join"
        /\ JoinCode(t) = BadCode
        /\ JoinName(t) = <<>>
        /\ resp[t].error = MissingPlayerName

\* C9: a join whose name is exactly the name of a member of the room (the host
\* included) returns DuplicatePlayer (409), full room or not, and leaves the
\* table as it is; a name that differs from every member (if only in case) is
\* not answered DuplicatePlayer.
C9_DuplicatePlayer ==
    [][\A t \in Threads :
          (Leaves(t, "join_cs") /\ JoinCode(t) \in DOMAIN game_rooms) =>
              LET players == game_rooms[JoinCode(t)].players IN
              IF \E i \in 1..Len(players) : players[i] = JoinName(t)
              THEN /\ resp'[t].status = 409
                   /\ resp'[t].error = DuplicatePlayer
                   /\ game_rooms' = game_rooms
              ELSE resp'[t].error # DuplicatePlayer]_vars

\* C9 witness: a join under the host's name into a full room has been answered
\* DuplicatePlayer.
C9_Witness ==
    \E t \in Threads :
        /\ pc[t] = "idle"
        /\ req[t].op = "join"
        /\ resp[t].error = DuplicatePlayer
        /\ found[t] # NoRoom
        /\ JoinName(t) = found[t].host_name
        /\ Len(found[t].players) >= found[t].max_players

\* C10: a successful join appends the trimmed player name to the end of the
\* room's players, leaves the earlier players and their order as they were, and
\* returns the new list with player_count equal to its length.
C10_JoinAppends ==
    [][\A t \in Threads :
          (Leaves(t, "join_cs") /\ resp'[t].status = 200) =>
              LET code == JoinCode(t) IN
              /\ code \in DOMAIN game_rooms
              /\ code \in DOMAIN game_rooms'
              /\ Len(game_rooms'[code].players) = Len(game_rooms[code].players) + 1
              /\ \A i \in 1..Len(game_rooms[code].players) :
                     game_rooms'[code].players[i] = game_rooms[code].players[i]
              /\ game_rooms'[code].players[Len(game_rooms'[code].players)] = JoinName(t)
              /\ resp'[t].body.players = game_rooms'[code].players
              /\ resp'[t].body.player_count = Len(game_rooms'[code].players)
              /\ resp'[t].body.player_name = JoinName(t)]_vars

\* C10 witness: a second joiner, whose name came padded with blanks, has been
\* appended behind the host and the first joiner.
C10_Witness ==
    \E t \in Threads :
        /\ pc[t] = "idle"
        /\ req[t].op = "join"
        /\ DictGet(req[t].data, "player_name", <<>>) = PaddedBob
        /\ resp[t].status = 200
        /\ Len(resp[t].body.players) = 3
        /\ resp[t].body.players[3] = Bob

\* C11: a join of a name that is not a member into a room of the table
\* succeeds if and only if len(players) < max_players before the call; when
\* len(players) >= max_players it returns RoomFull (403) and leaves the players
\* (and the whole table) unchanged.
C11_RoomFullIffNoSlot ==
    [][\A t \in Threads :
          (/\ Leaves(t, "join_cs")
           /\ JoinCode(t) \in DOMAIN game_rooms
           /\ \A i \in 1..Len(game_rooms[JoinCode(t)].players) :
                  game_rooms[JoinCode(t)].players[i] # JoinName(t)) =>
              LET room == game_rooms[JoinCode(t)] IN
              IF Len(room.players) < room.max_players
              THEN /\ resp'[t].status = 200
                   /\ game_rooms'[JoinCode(t)].players = room.players \o <<JoinName(t)>>
              ELSE /\ resp'[t].status = 403
                   /\ resp'[t].error = RoomFull
                   /\ game_rooms' = game_rooms]_vars

\* C11 witness: a room of two or more slots was filled by joins, and the join
\* of one more new name has been answered RoomFull.
C11_Witness ==
    \E t \in Threads :
        /\ pc[t] = "idle"
        /\ req[t].op = "join"
        /\ resp[t].status = 403
        /\ resp[t].error = RoomFull
        /\ found[t] # NoRoom
        /\ found[t].max_players >= 2
        /\ Len(found[t].players) = found[t].max_players
        /\ \A i \in 1..Len(found[t].players) : found[t].players[i] # JoinName(t)

\* thread t takes the step of join_room that runs the sweep and the checks,
\* for a request with a body, a non-empty code and a non-empty player name
JoinChecksWellFormed(t) ==
    /\ req[t].op = "join"
    /\ Leaves(t, "sweep_cs")
    /\ JoinCode(t) # <<>>
    /\ JoinName(t) # <<>>

\* C12 (as claimed): a join whose code is not exactly 6 decimal digits is
\* answered InvalidCodeFormat (400) and the table after it is the table before.
C12_BadCodeLeavesTableIdentical ==
    [][\A t \in Threads :
          (/\ JoinChecksWellFormed(t)
           /\ ~(Len(JoinCode(t)) = 6 /\ \A i \in 1..6 : JoinCode(t)[i] \in Digits))
              => /\ pc'[t] = "idle"
                 /\ resp'[t].status = 400
                 /\ resp'[t].error = InvalidCodeFormat
                 /\ game_rooms' = game_rooms]_vars

\* C12 (amended): a join with a non-empty code and player name whose code is
\* not 6 characters that str.isdigit() takes for digits is answered
\* InvalidCodeFormat (400), and the table after it is the table before less the
\* rooms that had expired (now > expires_at), which the sweep at the head of the
\* handler removes; the rooms that stay are unchanged.  A code of 6 such
\* characters is never answered InvalidCodeFormat.
C12_BadCodeOnlySweeps ==
    [][\A t \in Threads :
          JoinChecksWellFormed(t) =>
              IF ~(Len(JoinCode(t)) = 6 /\ \A i \in 1..6 : JoinCode(t)[i] \in DigitChars)
              THEN /\ pc'[t] = "idle"
                   /\ resp'[t].status = 400
                   /\ resp'[t].error = InvalidCodeFormat
                   /\ game_rooms' =
                        [code \in {c \in DOMAIN game_rooms :
                                     ~(local[t].current_time > game_rooms[c].expires_at)}
                           |-> game_rooms[code]]
              ELSE pc'[t] = "join_acq"]_vars

\* C12 witness: a join with the code 12AB56 has been answered InvalidCodeFormat
\* after its sweep removed an expired room.
C12_Witness ==
    \E t \in Threads :
        /\ pc[t] = "idle"
        /\ req[t].op = "join"
        /\ JoinCode(t) = BadCode
        /\ resp[t].error = InvalidCodeFormat
        /\ removed[t] > 0

\* the status vocabulary, as the claims spell it
Vocabulary == {Waiting, Ready, Playing, Finished}

\* the status an update request carries, as sent
RawStatus(t) == DictGet(req[t].data, "status", <<>>)

\* thread t takes the step of update_room_status that runs the sweep and the
\* checks, for a request that carries a status and names a room that the sweep
\* leaves in the table
UpdateChecksOnLiveRoom(t) ==
    /\ req[t].op = "update"
    /\ Leaves(t, "sweep_cs")
    /\ "status" \in DOMAIN req[t].data
    /\ req[t].room_code \in DOMAIN game_rooms'

C14_StatusInVocabulary ==
    /\ [](\A code \in DOMAIN game_rooms : game_rooms[code].status \in Vocabulary)
    /\ [][/\ \A t \in Threads :
               Leaves(t, "insert_cs") =>
                   game_rooms'[resp'[t].body.room_code].status = Waiting
          /\ \A code \in DOMAIN game_rooms' : game_rooms'[code].status \in Vocabulary]_vars

\* C14 witness: an update with an unknown status has been refused while the
\* room holds a status that an earlier update stored.
C14_Witness ==
    \E t \in Threads :
        /\ pc[t] = "idle"
        /\ req[t].op = "update"
        /\ RawStatus(t) \in {Bogus, UpperReady}
        /\ resp[t].error = InvalidStatus
        /\ req[t].room_code \in DOMAIN game_rooms
        /\ game_rooms[req[t].room_code].status \in {Ready, Playing, Finished}

\* C15: for a room of the table in any status s and a requested status t of
\* the vocabulary (t = s and backward moves included), the update passes its
\* checks whatever s is, succeeds, and leaves the room in status t.
C15_NoTransitionGraph ==
    [][\A t \in Threads : \A s, new \in Vocabulary :
          LET code == req[t].room_code IN
          /\ (/\ req[t].op = "update"
              /\ Leaves(t, "sweep_cs")
              /\ RawStatus(t) = new
              /\ code \in DOMAIN game_rooms'
              /\ game_rooms'[code].status = s) => pc'[t] = "update_acq"
          /\ (/\ Leaves(t, "update_cs")
              /\ RawStatus(t) = new
              /\ code \in DOMAIN game_rooms
              /\ game_rooms[code].status = s)
                 => /\ resp'[t].status = 200
                    /\ resp'[t].body = [room_code |-> code, status |-> new,
                                        message |-> "Room status updated successfully"]
                    /\ game_rooms'[code] = [game_rooms[code] EXCEPT !.status = new]]_vars

\* C15 witness: a room that was finished has been set back to waiting.
C15_Witness ==
    \E t \in Threads :
        /\ pc[t] = "idle"
        /\ req[t].op = "update"
        /\ found[t] # NoRoom
        /\ found[t].status = Finished
        /\ resp[t].status = 200
        /\ resp[t].body.status = Waiting
        /\ game_rooms[req[t].room_code].status = Waiting

\* C16 (as claimed): a ListRooms that follows another with no create, join or
\* status update between them returns the same response.
C16_ListTwiceIdentical ==
    [][\A t \in Threads :
          (Leaves(t, "list_cs") /\ last_list # NoList) => resp'[t] = last_list.resp]_vars

\* C16 (amended): a ListRooms that follows another with no create, join or
\* status update between them returns the summaries of the rooms the first one
\* listed that have not expired by the time of the second call's sweep (now <=
\* expires_at), each summary as the first call gave it, and their count; so the
\* two responses are identical exactly when none of those rooms has expired in
\* between.
C16_ListTwiceLessExpired ==
    [][\A t \in Threads :
          (Leaves(t, "list_cs") /\ last_list # NoList) =>
              LET before == last_list.rooms
                  live == {c \in DOMAIN before : clock <= before[c].expires_at}
              IN  /\ resp'[t].status = 200
                  /\ resp'[t].body.rooms =
                        {s \in last_list.resp.body.rooms : s.room_code \in live}
                  /\ resp'[t].body.total = Cardinality(live)
                  /\ (resp'[t] = last_list.resp) = (live = DOMAIN before)]_vars

\* C16 witness: a second ListRooms, with nothing but the clock between it and
\* the first, has swept away a room the first one listed and is about to
\* return.
C16_Witness ==
    \E t \in Threads :
        /\ pc[t] = "list_cs"
        /\ last_list # NoList
        /\ removed[t] > 0
        /\ DOMAIN game_rooms # DOMAIN last_list.rooms

\* C17: a create writes exactly one room into the table and leaves the others
\* as they were; the room has players = [host_name], status waiting, host_name
\* as requested or "Host", max_players = min(requested, MAX_PLAYERS_PER_ROOM)
\* or MAX_PLAYERS_PER_ROOM if none was requested, and expires_at = created_at +
\* ROOM_EXPIRY_MINUTES; the response is 201 and carries the room's code, host
\* name, max_players and the two timestamps.
C17_CreateRoomResult ==
    [][\A t \in Threads :
          Leaves(t, "insert_cs") =>
              LET data == req[t].data
                  host == IF "host_name" \in DOMAIN data THEN data.host_name ELSE Host
                  capacity ==
                      IF "max_players" \notin DOMAIN data THEN MAX_PLAYERS_PER_ROOM
                      ELSE IF data.max_players < MAX_PLAYERS_PER_ROOM
                      THEN data.max_players ELSE MAX_PLAYERS_PER_ROOM
                  code == resp'[t].body.room_code
              IN  /\ resp'[t].status = 201
                  /\ DOMAIN game_rooms' = DOMAIN game_rooms \cup {code}
                  /\ \A c \in DOMAIN game_rooms \ {code} : game_rooms'[c] = game_rooms[c]
                  /\ game_rooms'[code].code = code
                  /\ game_rooms'[code].host_name = host
                  /\ game_rooms'[code].players = <<host>>
                  /\ game_rooms'[code].status = Waiting
                  /\ game_rooms'[code].max_players = capacity
                  /\ game_rooms'[code].expires_at
                        = game_rooms'[code].created_at + ROOM_EXPIRY_MINUTES
                  /\ resp'[t].body =
                        [room_code |-> code,
                         host_name |-> host,
                         created_at |-> <<"iso", game_rooms'[code].created_at>>,
                         expires_at |-> <<"iso", game_rooms'[code].expires_at>>,
                         max_players |-> capacity]]_vars

\* C17 witness: a create that asked for more than MAX_PLAYERS_PER_ROOM players
\* and named no host has been answered 201 with max_players =
\* MAX_PLAYERS_PER_ROOM and the host "Host", and its room is in the table.
C17_Witness ==
    \E t \in Threads :
        /\ pc[t] = "idle"
        /\ req[t].op = "create"
        /\ "max_players" \in DOMAIN req[t].data
        /\ req[t].data.max_players > MAX_PLAYERS_PER_ROOM
        /\ resp[t].status = 201
        /\ resp[t].body.max_players = MAX_PLAYERS_PER_ROOM
        /\ resp[t].body.host_name = Host
        /\ resp[t].body.room_code \in DOMAIN game_rooms
        /\ game_rooms[resp[t].body.room_code].players = <<Host>>

\* thread t takes the step that runs the sweep, and the sweep's now is past
\* the expiry of room
SweepsAway(t, room) ==
    /\ Leaves(t, "sweep_cs")
    /\ local[t].current_time > room.expires_at

\* C18: a room of the table is gone from it after a step (its key deleted, or
\* another room put under its key) only if the step is an expiry sweep whose
\* now is strictly greater than the room's expires_at.
C18_RoomLeavesOnlyBySweep ==
    [][\A code \in DOMAIN game_rooms :
          (\/ code \notin DOMAIN game_rooms'
           \/ \E t \in Threads : Leaves(t, "insert_cs") /\ local[t].room_code = code)
              => \E t \in Threads : SweepsAway(t, game_rooms[code])]_vars

\* C18, the part of it that holds: a key is deleted from the table only by an
\* expiry sweep whose now is strictly greater than the room's expires_at, and
\* no step of join, get, update-status or list past the sweep deletes a key.
C18_KeyLeavesOnlyBySweep ==
    [][\A code \in DOMAIN game_rooms :
          code \notin DOMAIN game_rooms'
              => \E t \in Threads : SweepsAway(t, game_rooms[code])]_vars

\* C19: the sweep run with now removes exactly the rooms with expires_at <
\* now, leaves every other room and all of its fields unchanged, and returns
\* the number of rooms it removed; run again at the same now on the table it
\* left, it removes nothing and returns 0.
C19_SweepExpired ==
    [][\A t \in Threads :
          Leaves(t, "sweep_cs") =>
              LET now == local[t].current_time
                  gone == {c \in DOMAIN game_rooms : game_rooms[c].expires_at < now}
              IN  /\ DOMAIN game_rooms' = DOMAIN game_rooms \ gone
                  /\ \A c \in DOMAIN game_rooms' : game_rooms'[c] = game_rooms[c]
                  /\ removed'[t] = Cardinality(gone)
                  /\ SweepExpired(game_rooms', now) = game_rooms'
                  /\ Cardinality(ExpiredCodes(game_rooms', now)) = 0]_vars

\* C19 witness: the sweep of a ListRooms has just removed one room and left
\* another, whose expiry is not before the sweep's now, in the table.
C19_Witness ==
    \E t \in Threads :
        /\ pc[t] = "list_acq"
        /\ removed[t] = 1
        /\ \E c \in DOMAIN game_rooms : game_rooms[c].expires_at >= clock

\* the labels of a handler past its call of cleanup_expired_rooms()
PastSweepLabels ==
    {"generate", "stamp", "insert_acq", "insert_cs", "join_acq", "join_cs",
     "get_acq", "get_cs", "update_acq", "update_cs", "list_acq", "list_cs"}

\* C20: every room operation runs the expiry sweep first.  A request that
\* arrives does nothing but start the sweep; a handler gets past the sweep
\* (to its checks' outcome, to code generation, to its own critical section)
\* only by the step that sweeps, and that step leaves no room with now >
\* expires_at in the table, also when the checks then refuse the request; a
\* response is produced only by or after that step.
C20_SweepFirst ==
    [][\A t \in Threads :
          /\ (pc[t] = "idle" /\ pc'[t] # "idle")
                => pc'[t] = "sweep_acq" /\ game_rooms' = game_rooms
          /\ Leaves(t, "sweep_acq")
                => pc'[t] = "sweep_cs" /\ game_rooms' = game_rooms
          /\ Leaves(t, "sweep_cs")
                => /\ \A c \in DOMAIN game_rooms' :
                          ~(local[t].current_time > game_rooms'[c].expires_at)
                   /\ pc'[t] \in PastSweepLabels
                         \/ (pc'[t] = "idle" /\ resp'[t].status = 400)
                   /\ (req[t].op = "create") = (pc'[t] = "generate")
          /\ (pc'[t] \in PastSweepLabels /\ pc[t] \notin PastSweepLabels)
                => pc[t] = "sweep_cs"
          /\ (resp'[t] # resp[t] /\ resp'[t] # NoResp)
                => pc[t] \in PastSweepLabels \cup {"sweep_cs"}]_vars

\* C20 witness: a status update whose code is malformed has been refused, and
\* its sweep had removed an expired room before.
C20_Witness ==
    \E t \in Threads :
        /\ pc[t] = "idle"
        /\ req[t].op = "update"
        /\ req[t].room_code = BadCode
        /\ resp[t].error = InvalidCodeFormat
        /\ removed[t] > 0

\* the labels at which a thread holds the lock
LockedLabels == {"sweep_cs", "insert_cs", "join_cs", "get_cs", "update_cs", "list_cs"}

LookupCode(t) == IF req[t].op = "join" THEN JoinCode(t) ELSE req[t].room_code

\* thread t takes the step that is the critical section of its join, get or
\* status update
Lookup(t) ==
    \/ Leaves(t, "join_cs")
    \/ Leaves(t, "get_cs")
    \/ Leaves(t, "update_cs")

\* C23: a join, get or status update that has passed its checks and whose
\* code is not a key of the table when it looks it up returns RoomNotFound
\* (404), and the table after it is the table before it: no entry is made for
\* the code and no room changes.  A code that is a key is never answered
\* RoomNotFound.
C23_RoomNotFound ==
    [][\A t \in Threads :
          Lookup(t) =>
              IF LookupCode(t) \notin DOMAIN game_rooms
              THEN /\ resp'[t].status = 404
                   /\ resp'[t].error = RoomNotFound
                   /\ game_rooms' = game_rooms
              ELSE resp'[t].status # 404 /\ resp'[t].error # RoomNotFound]_vars

\* C23 witness: a join of a code whose room its own sweep had just removed has
\* been answered RoomNotFound, the other room still being in the table.
C23_Witness ==
    \E t \in Threads :
        /\ pc[t] = "idle"
        /\ req[t].op = "join"
        /\ JoinCode(t) = Code1
        /\ resp[t].status = 404
        /\ removed[t] = 1
        /\ DOMAIN game_rooms = {Code2}

\* the status each error of the taxonomy is sent with
StatusOf(error) ==
    CASE error \in {InvalidCodeFormat, MissingPlayerName, MissingCode,
                    InvalidStatus, MissingBody} -> 400
      [] error = RoomNotFound -> 404
      [] error = DuplicatePlayer -> 409
      [] error = RoomFull -> 403
      [] OTHER -> -1

\* C24: every response of a room operation is either a success, sent with 201
\* by create and with 200 by every other operation, or one of the errors of the
\* taxonomy, sent with its one status: InvalidCodeFormat, MissingPlayerName,
\* MissingCode, InvalidStatus and MissingBody with 400, RoomNotFound with 404,
\* DuplicatePlayer with 409, RoomFull with 403.
C24_StatusMapping ==
    \A t \in Threads :
        resp[t] # NoResp =>
            IF resp[t].error = ""
            THEN resp[t].status = IF req[t].op = "create" THEN 201 ELSE 200
            ELSE /\ resp[t].status = StatusOf(resp[t].error)
                 /\ resp[t].body = NoBody
                 /\ req[t].op # "create"

\* C24 witness: a join into a full room has been answered RoomFull with 403.
C24_Witness ==
    \E t \in Threads :
        /\ pc[t] = "idle"
        /\ req[t].op = "join"
        /\ resp[t] = [status |-> 403, error |-> RoomFull, body |-> NoBody]

\* the summaries of a list response that describe the room with this code
SummariesOf(body, code) == {e \in body.rooms : e.room_code = code}

\* C25: the response of list_rooms holds exactly one summary for each room of
\* the table its sweep left (with one request at a time, the table at the
\* listing): every key has one summary, carrying the room's code, host_name,
\* len(players), max_players and status; every summary is that of a key;
\* total is the number of keys; no listed room has expires_at before the
\* instant of the call, so none the sweep removed; the listing changes no room.
C25_ListSummarisesTable ==
    [][\A t \in Threads :
          Leaves(t, "list_cs") =>
              LET body == resp'[t].body IN
              /\ resp'[t].status = 200
              /\ resp'[t].error = ""
              /\ \A code \in DOMAIN game_rooms :
                    SummariesOf(body, code) =
                        {[room_code |-> code,
                          host_name |-> game_rooms[code].host_name,
                          player_count |-> Len(game_rooms[code].players),
                          max_players |-> game_rooms[code].max_players,
                          status |-> game_rooms[code].status]}
              /\ \A e \in body.rooms : e.room_code \in DOMAIN game_rooms
              /\ body.total = Cardinality(DOMAIN game_rooms)
              /\ ExpiredCodes(game_rooms, clock) = {}
              /\ game_rooms' = game_rooms]_vars

\* C25 witness: a list whose sweep removed one room has returned the one room
\* left, which a player had joined, with player_count 2.
C25_Witness ==
    \E t \in Threads :
        /\ pc[t] = "idle"
        /\ req[t].op = "list"
        /\ removed[t] = 1
        /\ resp[t].status = 200
        /\ resp[t].body.total = 1
        /\ \E e \in resp[t].body.rooms : e.player_count = 2 /\ e.max_players = 3

\* the fields of a room that no handler assigns after create_room has built it
Immutable(room) ==
    [code |-> room.code,
     host_name |-> room.host_name,
     created_at |-> room.created_at,
     expires_at |-> room.expires_at,
     max_players |-> room.max_players]

\* the step changes, of the whole table, at most this field of the room under
\* this code
ChangesOnlyPlayers(code) ==
    game_rooms' = [game_rooms EXCEPT ![code].players = game_rooms'[code].players]

ChangesOnlyStatus(code) ==
    game_rooms' = [game_rooms EXCEPT ![code].status = game_rooms'[code].status]

\* C26: a successful join changes only the players field of the room it joins
\* and a successful status update only the status field of the room it
\* updates, every other room staying as it is; and in every step the room
\* under a code that is a key before and after the step keeps its code,
\* host_name, created_at, expires_at and max_players.
C26_OnlyPlayersAndStatusChange ==
    [][/\ \A t \in Threads :
            /\ (Leaves(t, "join_cs") /\ resp'[t].status = 200)
                  => ChangesOnlyPlayers(JoinCode(t))
            /\ (Leaves(t, "update_cs") /\ resp'[t].status = 200)
                  => ChangesOnlyStatus(req[t].room_code)
       /\ \A code \in DOMAIN game_rooms \cap DOMAIN game_rooms' :
            Immutable(game_rooms'[code]) = Immutable(game_rooms[code])]_vars

\* C26, the part of it that holds: the frames of join and status update, and
\* the five fields of the room under a code change only in a step of
\* create_room that stores a new room under that code.
C26_FieldsChangeOnlyByInsert ==
    [][/\ \A t \in Threads :
            /\ (Leaves(t, "join_cs") /\ resp'[t].status = 200)
                  => ChangesOnlyPlayers(JoinCode(t))
            /\ (Leaves(t, "update_cs") /\ resp'[t].status = 200)
                  => ChangesOnlyStatus(req[t].room_code)
       /\ \A code \in DOMAIN game_rooms \cap DOMAIN game_rooms' :
            \/ Immutable(game_rooms'[code]) = Immutable(game_rooms[code])
            \/ \E t \in Threads :
                  Leaves(t, "insert_cs") /\ local[t].room_code = code]_vars

\* sequence a is an initial part of sequence b
IsPrefix(a, b) == Len(a) <= Len(b) /\ SubSeq(b, 1, Len(a)) = a

\* C27: in every reachable state the players list of every room of the table
\* is non-empty and its first element is the room's host_name; and in every
\* step the players list of the room under a code keeps the players it had, in
\* their order, unless the step is a create storing a new room under the code.
C27_HostIsFirstPlayer ==
    /\ [](\A code \in DOMAIN game_rooms :
            /\ Len(game_rooms[code].players) >= 1
            /\ game_rooms[code].players[1] = game_rooms[code].host_name)
    /\ [][\A code \in DOMAIN game_rooms \cap DOMAIN game_rooms' :
            \/ IsPrefix(game_rooms[code].players, game_rooms'[code].players)
            \/ \E t \in Threads :
                  Leaves(t, "insert_cs") /\ local[t].room_code = code]_vars

\* C27 witness: a room created by Alice that Bob has joined holds Alice, the
\* host, first and Bob second.
C27_Witness ==
    \E code \in DOMAIN game_rooms :
        /\ game_rooms[code].host_name = Alice
        /\ game_rooms[code].players = <<Alice, Bob>>
        /\ \A t \in Threads : pc[t] = "idle"

\* no name occurs twice in the sequence
NoNameTwice(players) ==
    \A i, j \in 1..Len(players) : players[i] = players[j] => i = j

\* threads t and u have each served a join under the same name, the two joins
\* ran at the same time (one passed its checks while the other was between
\* its checks and its return) and both found the same room after their sweeps
RacedWithSameName(t, u) ==
    /\ t # u
    /\ (u \in overlap[t] \/ t \in overlap[u])
    /\ pc[t] = "idle" /\ pc[u] = "idle"
    /\ req[t].op = "join" /\ req[u].op = "join"
    /\ resp[t].status # 0 /\ resp[u].status # 0
    /\ found[t] # NoRoom
    /\ found[u] = found[t]
    /\ JoinName(t) = JoinName(u)

\* C28: in every reachable state, whatever the interleaving of the requests,
\* no room's players list holds a name twice; and of two concurrent joins under
\* the same name into the same room at most one succeeds.
C28_NoNameTwice ==
    /\ \A code \in DOMAIN game_rooms : NoNameTwice(game_rooms[code].players)
    /\ \A t, u \in Threads :
          RacedWithSameName(t, u) => ~(resp[t].status = 200 /\ resp[u].status = 200)

\* C28 witness: two concurrent joins under the same new name found the same
\* room with two free slots; one got in and the other was answered
\* DuplicatePlayer.
C28_Witness ==
    \E t, u \in Threads :
        /\ RacedWithSameName(t, u)
        /\ ~IsMember(JoinName(t), found[t])
        /\ Len(found[t].players) + 2 <= found[t].max_players
        /\ resp[t].status = 200
        /\ resp[u].status = 409
        /\ resp[u].error = DuplicatePlayer

\* a string of exactly six decimal digits
SixDecimalDigits(code) == Len(code) = 6 /\ \A i \in 1..6 : code[i] \in Digits

\* the labels of create_room at which generate_room_code() has returned
GeneratedLabels == {"stamp", "insert_acq", "insert_cs"}

\* C29: in every reachable state every key of the table is a string of exactly
\* six decimal digits (leading zeros allowed) and is the code field of the
\* room stored under it; and every code generate_room_code has returned, and
\* every room_code a create has answered with, is six decimal digits.
C29_KeysAreSixDigitCodes ==
    /\ \A code \in DOMAIN game_rooms :
          SixDecimalDigits(code) /\ game_rooms[code].code = code
    /\ \A t \in Threads :
          /\ pc[t] \in GeneratedLabels => SixDecimalDigits(local[t].room_code)
          /\ (pc[t] = "idle" /\ req[t].op = "create" /\ resp[t].status = 201)
                => SixDecimalDigits(resp[t].body.room_code)

\* C29 witness: the table holds a room under each of the two codes, one of
\* them with leading zeros, and a join under six characters that are digits to
\* str.isdigit() but not decimal digits has been answered RoomNotFound.
C29_Witness ==
    \E t \in Threads :
        /\ pc[t] = "idle"
        /\ req[t].op = "join"
        /\ JoinCode(t) = SuperCode
        /\ resp[t].status = 404
        /\ DOMAIN game_rooms = {Code1, Code2}
        /\ Code1[1] = "0"

\* thread t is about to insert a room under a code whose room its own sweep
\* removed.  With one request at a time the table is as the sweep left it: the
\* sweep removed removed[t] rooms and as many codes are free as it removed, so
\* every free code is the code of a removed room.
Reissued(t) ==
    /\ pc[t] = "insert_cs"
    /\ removed[t] >= 1
    /\ Cardinality(DOMAIN game_rooms) + removed[t] = Cardinality(Codes)
    /\ local[t].room_code \notin DOMAIN game_rooms

\* C30: the sweep leaves nothing in the table under the code of a room it
\* removes, so the generator can issue the code again; a create that is issued
\* the code of a removed room stores under it a room with its own host_name,
\* players = [host_name], status waiting, created_at the instant of the create
\* and expires_at = created_at + ROOM_EXPIRY_MINUTES, a room that is not
\* expired; and a later get, join or status update under a code acts on the
\* room the table holds under it: get returns its fields, join appends to its
\* players, update replaces its status.
C30_ReissuedCodeGetsFreshRoom ==
    [][\A t \in Threads :
          /\ Leaves(t, "sweep_cs") =>
                \A c \in DOMAIN game_rooms :
                    local[t].current_time > game_rooms[c].expires_at
                        => c \notin DOMAIN game_rooms'
          /\ (Reissued(t) /\ Leaves(t, "insert_cs")) =>
                LET c == local[t].room_code
                    host == DictGet(req[t].data, "host_name", Host)
                IN  /\ c \in DOMAIN game_rooms'
                    /\ game_rooms'[c].code = c
                    /\ game_rooms'[c].host_name = host
                    /\ game_rooms'[c].players = <<host>>
                    /\ game_rooms'[c].status = Waiting
                    /\ game_rooms'[c].created_at = clock
                    /\ game_rooms'[c].expires_at = clock + ROOM_EXPIRY_MINUTES
                    /\ ~Expired(game_rooms'[c], clock)
          /\ (Leaves(t, "get_cs") /\ req[t].room_code \in DOMAIN game_rooms) =>
                LET room == game_rooms[req[t].room_code] IN
                /\ resp'[t].status = 200
                /\ resp'[t].body.host_name = room.host_name
                /\ resp'[t].body.players = room.players
                /\ resp'[t].body.status = room.status
                /\ resp'[t].body.max_players = room.max_players
                /\ resp'[t].body.created_at = <<"iso", room.created_at>>
                /\ resp'[t].body.expires_at = <<"iso", room.expires_at>>
          /\ (Leaves(t, "join_cs") /\ resp'[t].status = 200) =>
                LET room == game_rooms[JoinCode(t)] IN
                /\ resp'[t].body.host_name = room.host_name
                /\ resp'[t].body.players = Append(room.players, JoinName(t))
                /\ game_rooms'[JoinCode(t)] =
                      [room EXCEPT !.players = Append(room.players, JoinName(t))]
          /\ (Leaves(t, "update_cs") /\ resp'[t].status = 200) =>
                LET room == game_rooms[req[t].room_code] IN
                game_rooms'[req[t].room_code] =
                    [room EXCEPT !.status = resp'[t].body.status]]_vars

\* C30 witness: a create by Alice whose sweep had removed the rooms under
\* every code has been issued one of these codes; the table holds under it,
\* and under no other code, a room with Alice as its only player, status
\* waiting, created at the instant of the create.
C30_Witness ==
    \E t \in Threads :
        /\ pc[t] = "idle"
        /\ req[t].op = "create"
        /\ DictGet(req[t].data, "host_name", Host) = Alice
        /\ resp[t].status = 201
        /\ removed[t] = Cardinality(Codes)
        /\ DOMAIN game_rooms = {resp[t].body.room_code}
        /\ game_rooms[resp[t].body.room_code].players = <<Alice>>
        /\ game_rooms[resp[t].body.room_code].status = Waiting
        /\ game_rooms[resp[t].body.room_code].created_at = clock
        /\ clock > ROOM_EXPIRY_MINUTES

\* the table less the rooms the sweep of thread t removes, the others as they are
AfterSweep(t) ==
    [code \in {c \in DOMAIN game_rooms :
                 ~(local[t].current_time > game_rooms[c].expires_at)}
        |-> game_rooms[code]]

\* C31 (as claimed): a join or a status update whose body is absent or the
\* empty object is answered MissingBody (400).
C31_EmptyBodyIsMissingBody ==
    \A t \in Threads :
        (/\ pc[t] = "idle"
         /\ req[t].op \in {"join", "update"}
         /\ resp[t].status # 0
         /\ DOMAIN req[t].data = {})
            => resp[t].status = 400 /\ resp[t].error = MissingBody

\* C31 (amended): a join whose body is absent or the empty object is answered
\* MissingBody (400), never MissingCode or MissingPlayerName; a status update
\* whose body is absent or the empty object is answered InvalidCodeFormat (400)
\* if the code of its path is not 6 characters that str.isdigit() takes for
\* digits and MissingBody (400) otherwise, never InvalidStatus; in both cases
\* the call ends there, and the table after it is the table before less the
\* rooms its sweep removes, every other room unchanged.
C31_EmptyBodyChecks ==
    [][\A t \in Threads :
          (/\ Leaves(t, "sweep_cs")
           /\ req[t].op \in {"join", "update"}
           /\ DOMAIN req[t].data = {})
              => /\ pc'[t] = "idle"
                 /\ resp'[t].status = 400
                 /\ resp'[t].body = NoBody
                 /\ resp'[t].error =
                       IF /\ req[t].op = "update"
                          /\ ~(/\ Len(req[t].room_code) = 6
                               /\ \A i \in 1..6 : req[t].room_code[i] \in DigitChars)
                       THEN InvalidCodeFormat
                       ELSE MissingBody
                 /\ game_rooms' = AfterSweep(t)]_vars

\* C31 witness: a status update with an empty body for the code of a room the
\* table holds has been answered MissingBody, and the room has kept its status.
C31_Witness ==
    \E t \in Threads :
        /\ pc[t] = "idle"
        /\ req[t].op = "update"
        /\ DOMAIN req[t].data = {}
        /\ resp[t].error = MissingBody
        /\ req[t].room_code \in DOMAIN game_rooms
        /\ game_rooms[req[t].room_code].status = Waiting

---------------------------------------------------------------------------
(* The room operations of server.py, each as one function of the table,    *)
(* the request and the clock                                                *)

\* (mutant) the sweep of server.py also removes a room at the instant it expires
AppCleanupAtBoundary(rooms, current_time) ==
    [code \in {c \in DOMAIN rooms : ~(current_time >= rooms[c].expires_at)}
        |-> rooms[code]]

\* server.py cleanup_expired_rooms (39-49): the table after the deletions
AppCleanupExpiredRooms(rooms, current_time) ==
    [code \in {c \in DOMAIN rooms : ~(current_time > rooms[c].expires_at)}
        |-> rooms[code]]

\* server.py cleanup_expired_rooms: len(expired_codes)
AppCleanupCount(rooms, current_time) ==
    Cardinality({c \in DOMAIN rooms : current_time > rooms[c].expires_at})

\* server.py generate_room_code (31-36): the sample is returned if the table
\* does not hold it
AppGenerateRoomCode(rooms, sample) == sample \notin DOMAIN rooms

\* server.py create_room (81-108), issued room_code by the generator
AppCreateRoom(rooms, data, room_code, now) ==
    LET swept == AppCleanupExpiredRooms(rooms, now)
        host_name == IF "host_name" \in DOMAIN data THEN data.host_name ELSE Host
        requested == IF "max_players" \in DOMAIN data
                     THEN data.max_players ELSE MAX_PLAYERS_PER_ROOM
        max_players == IF requested < MAX_PLAYERS_PER_ROOM
                       THEN requested ELSE MAX_PLAYERS_PER_ROOM
        created_at == now
        expires_at == created_at + ROOM_EXPIRY_MINUTES
    IN  [rooms |-> [code \in DOMAIN swept \cup {room_code} |->
                      IF code = room_code
                      THEN [code |-> room_code,
                            host_name |-> host_name,
                            players |-> <<host_name>>,
                            created_at |-> created_at,
                            expires_at |-> expires_at,
                            max_players |-> max_players,
                            status |-> Waiting]
                      ELSE swept[code]],
         resp |-> [status |-> 201, error |-> "",
                   body |-> [room_code |-> room_code,
                             host_name |-> host_name,
                             created_at |-> <<"iso", created_at>>,
                             expires_at |-> <<"iso", expires_at>>,
                             max_players |-> max_players]]]

\* server.py join_room (131-172)
AppJoinRoom(rooms, data, now) ==
    LET swept == AppCleanupExpiredRooms(rooms, now)
        room_code == Strip(IF "room_code" \in DOMAIN data THEN data.room_code ELSE <<>>)
        player_name == Strip(IF "player_name" \in DOMAIN data
                             THEN data.player_name ELSE <<>>)
        refused(msg, status) ==
            [rooms |-> swept, resp |-> [status |-> status, error |-> msg, body |-> NoBody]]
    IN  IF DOMAIN data = {} THEN refused(MissingBody, 400)
        ELSE IF room_code = <<>> THEN refused(MissingCode, 400)
        ELSE IF player_name = <<>> THEN refused(MissingPlayerName, 400)
        ELSE IF ~(Len(room_code) = 6 /\ IsDigit(room_code))
        THEN refused(InvalidCodeFormat, 400)
        ELSE IF room_code \notin DOMAIN swept THEN refused(RoomNotFound, 404)
        ELSE LET room == swept[room_code] IN
            IF \E i \in 1..Len(room.players) : room.players[i] = player_name
            THEN refused(DuplicatePlayer, 409)
            ELSE IF Len(room.players) >= room.max_players
            THEN refused(RoomFull, 403)
            ELSE LET players == Append(room.players, player_name) IN
                [rooms |-> [swept EXCEPT ![room_code].players = players],
                 resp |-> [status |-> 200, error |-> "",
                           body |-> [room_code |-> room_code,
                                     player_name |-> player_name,
                                     players |-> players,
                                     host_name |-> room.host_name,
                                     player_count |-> Len(players),
                                     max_players |-> room.max_players,
                                     status |-> room.status]]]

\* server.py get_room_info (192-212)
AppGetRoomInfo(rooms, room_code, now) ==
    LET swept == AppCleanupExpiredRooms(rooms, now) IN
    [rooms |-> swept,
     resp |->
        IF ~(Len(room_code) = 6 /\ IsDigit(room_code))
        THEN [status |-> 400, error |-> InvalidCodeFormat, body |-> NoBody]
        ELSE IF room_code \notin DOMAIN swept
        THEN [status |-> 404, error |-> RoomNotFound, body |-> NoBody]
        ELSE LET room == swept[room_code] IN
            [status |-> 200, error |-> "",
             body |-> [room_code |-> room.code,
                       host_name |-> room.host_name,
                       players |-> room.players,
                       player_count |-> Len(room.players),
                       max_players |-> room.max_players,
                       status |-> room.status,
                       created_at |-> <<"iso", room.created_at>>,
                       expires_at |-> <<"iso", room.expires_at>>]]]

\* server.py list_rooms (226-243); the list is kept as the set of its entries
AppListRooms(rooms, now) ==
    LET swept == AppCleanupExpiredRooms(rooms, now)
        rooms_list == {[room_code |-> swept[code].code,
                        host_name |-> swept[code].host_name,
                        player_count |-> Len(swept[code].players),
                        max_players |-> swept[code].max_players,
                        status |-> swept[code].status] : code \in DOMAIN swept}
    IN  [rooms |-> swept,
         resp |-> [status |-> 200, error |-> "",
                   body |-> [rooms |-> rooms_list, total |-> Cardinality(rooms_list)]]]

\* the handler of server.py for request r
AppHandle(rooms, r, room_code, now) ==
    CASE r.op = "create" -> AppCreateRoom(rooms, r.data, room_code, now)
      [] r.op = "join" -> AppJoinRoom(rooms, r.data, now)
      [] r.op = "get" -> AppGetRoomInfo(rooms, r.room_code, now)
      [] r.op = "list" -> AppListRooms(rooms, now)

\* the operations server.py defines as well
AppOps == {"create", "join", "get", "list"}

\* C32: with one request at a time, every step of a room operation of
\* room_routes.py leaves the table and the response that the operation of the
\* same name in server.py leaves for the same table, request, clock value and
\* drawn code: the sweep removes the same rooms and returns the same count,
\* the generator accepts the same samples, and a create, join, get or list
\* returns the same response and ends with the same table.
C32_SameAsServerPy ==
    [][\A t \in Threads :
          /\ Leaves(t, "sweep_cs") =>
                /\ game_rooms' = AppCleanupExpiredRooms(game_rooms, local[t].current_time)
                /\ removed'[t] = AppCleanupCount(game_rooms, local[t].current_time)
          /\ (pc[t] = "generate" /\ pc'[t] = "stamp") =>
                AppGenerateRoomCode(game_rooms, local'[t].room_code)
          /\ (pc[t] # "idle" /\ pc'[t] = "idle" /\ req[t].op \in AppOps) =>
                LET out == AppHandle(game_rooms, req[t], local[t].room_code, clock)
                IN  /\ game_rooms' = out.rooms
                    /\ resp'[t] = out.resp]_vars

\* C32 witness: a join whose sweep removed an expired room has put its player
\* into another room.
C32_Witness ==
    \E t \in Threads :
        /\ pc[t] = "idle"
        /\ req[t].op = "join"
        /\ resp[t].status = 200
        /\ removed[t] >= 1

---------------------------------------------------------------------------
(* The quiz templates (templates/items.py, templates/quiz.py) and the quiz *)
(* store of server.py.  A Python dict is a function from its keys; an      *)
(* object is a record of its attributes with the name of its class; a call *)
(* that may raise gives its value or the name of the exception.            *)

\* the quiz store is bounded: at most MaxQuizzes quizzes are created
MaxQuizzes == 2

\* Python's None
None == "None"

Ok(v) == [raised |-> "", value |-> v]

Raise(exception) == [raised |-> exception, value |-> None]

\* str.lower(), on the letters of the model's strings
UpperLetters == <<"T", "R", "U", "E", "F", "A", "L", "S">>

LowerLetters == <<"t", "r", "u", "e", "f", "a", "l", "s">>

LowerChar(c) ==
    IF \E i \in 1..Len(UpperLetters) : UpperLetters[i] = c
    THEN LowerLetters[CHOOSE i \in 1..Len(UpperLetters) : UpperLetters[i] = c]
    ELSE c

Lower(s) == [i \in 1..Len(s) |-> LowerChar(s[i])]

\* items.py TextItem.__init__ (28-35)
TextItem(content, css_class) ==
    [cls |-> "TextItem", content |-> content, css_class |-> css_class]

\* items.py ImageItem.__init__ (63-76)
ImageItem(url, alt, css_class, width, height) ==
    [cls |-> "ImageItem", url |-> url, alt |-> alt, css_class |-> css_class,
     width |-> width, height |-> height]

\* items.py VideoItem.__init__ (119-132)
VideoItem(url, thumbnail, css_class, autoplay, controls) ==
    [cls |-> "VideoItem", url |-> url, thumbnail |-> thumbnail, css_class |-> css_class,
     autoplay |-> autoplay, controls |-> controls]

\* items.py AudioItem.__init__ (176-187)
AudioItem(url, css_class, autoplay, controls) ==
    [cls |-> "AudioItem", url |-> url, css_class |-> css_class,
     autoplay |-> autoplay, controls |-> controls]

\* items.py to_dict of the four classes (44-49, 94-102, 151-159, 204-211)
ItemToDict(item) ==
    CASE item.cls = "TextItem" ->
            [type |-> "text", content |-> item.content, css_class |-> item.css_class]
      [] item.cls = "ImageItem" ->
            [type |-> "image", url |-> item.url, alt |-> item.alt,
             css_class |-> item.css_class, width |-> item.width, height |-> item.height]
      [] item.cls = "VideoItem" ->
            [type |-> "video", url |-> item.url, thumbnail |-> item.thumbnail,
             css_class |-> item.css_class, autoplay |-> item.autoplay,
             controls |-> item.controls]
      [] item.cls = "AudioItem" ->
            [type |-> "audio", url |-> item.url, css_class |-> item.css_class,
             autoplay |-> item.autoplay, controls |-> item.controls]

\* (mutant) the text item is read without its css_class
TextItemFromDictForgetsClass(data) ==
    IF "content" \notin DOMAIN data THEN Raise("KeyError")
    ELSE Ok(TextItem(data.content, ""))

\* items.py TextItem.from_dict (51-57): data['content'] raises KeyError
TextItemFromDict(data) ==
    IF "content" \notin DOMAIN data THEN Raise("KeyError")
    ELSE Ok(TextItem(data.content, DictGet(data, "css_class", "")))

\* items.py ImageItem.from_dict (104-113)
ImageItemFromDict(data) ==
    IF "url" \notin DOMAIN data THEN Raise("KeyError")
    ELSE Ok(ImageItem(data.url, DictGet(data, "alt", ""), DictGet(data, "css_class", ""),
                      DictGet(data, "width", ""), DictGet(data, "height", "")))

\* items.py VideoItem.from_dict (161-170)
VideoItemFromDict(data) ==
    IF "url" \notin DOMAIN data THEN Raise("KeyError")
    ELSE Ok(VideoItem(data.url, DictGet(data, "thumbnail", ""),
                      DictGet(data, "css_class", ""), DictGet(data, "autoplay", FALSE),
                      DictGet(data, "controls", TRUE)))

\* items.py AudioItem.from_dict (213-221)
AudioItemFromDict(data) ==
    IF "url" \notin DOMAIN data THEN Raise("KeyError")
    ELSE Ok(AudioItem(data.url, DictGet(data, "css_class", ""),
                      DictGet(data, "autoplay", FALSE), DictGet(data, "controls", TRUE)))

\* (mutant) an unknown type is read as text
ItemFromDictDefaultsToText(data) ==
    LET item_type == DictGet(data, "type", None) IN
    CASE item_type = "image" -> ImageItemFromDict(data)
      [] item_type = "video" -> VideoItemFromDict(data)
      [] item_type = "audio" -> AudioItemFromDict(data)
      [] OTHER -> TextItemFromDict(data)

\* items.py item_from_dict (225-238)
item_from_dict(data) ==
    LET item_type == DictGet(data, "type", None) IN
    CASE item_type = "text" -> TextItemFromDict(data)
      [] item_type = "image" -> ImageItemFromDict(data)
      [] item_type = "video" -> VideoItemFromDict(data)
      [] item_type = "audio" -> AudioItemFromDict(data)
      [] OTHER -> Raise("ValueError")

\* the empty dict {} of metadata
NoMetadata == [k \in {} |-> ""]

\* quiz.py QuizTemplate.__init__ (24-47); correct_index counts from 0, and
\* `metadata or {}` leaves a dict as it is (the empty one is {})
QuizTemplateInit(question, answers, correct_index, metadata) ==
    IF Len(answers) = 0 THEN Raise("ValueError")
    ELSE IF ~(0 <= correct_index /\ correct_index < Len(answers)) THEN Raise("ValueError")
    ELSE Ok([cls |-> "QuizTemplate", question |-> question, answers |-> answers,
             correct_index |-> correct_index, metadata |-> metadata])

\* quiz.py QuizTemplate.validate (115-124)
QuizValidate(quiz) ==
    /\ Len(quiz.answers) > 0
    /\ 0 <= quiz.correct_index
    /\ quiz.correct_index < Len(quiz.answers)

\* (mutant) the solution is written whatever include_solution is
QuizToDictAlwaysSolution(quiz, include_solution) ==
    [question |-> ItemToDict(quiz.question),
     answers |-> [i \in 1..Len(quiz.answers) |-> ItemToDict(quiz.answers[i])],
     metadata |-> quiz.metadata,
     correct_index |-> quiz.correct_index]

\* quiz.py QuizTemplate.to_dict (126-146)
QuizToDict(quiz, include_solution) ==
    IF include_solution
    THEN [question |-> ItemToDict(quiz.question),
          answers |-> [i \in 1..Len(quiz.answers) |-> ItemToDict(quiz.answers[i])],
          metadata |-> quiz.metadata,
          correct_index |-> quiz.correct_index]
    ELSE [question |-> ItemToDict(quiz.question),
          answers |-> [i \in 1..Len(quiz.answers) |-> ItemToDict(quiz.answers[i])],
          metadata |-> quiz.metadata]

\* quiz.py QuizTemplate.from_dict (148-164): the question is read first, then
\* the answers in their order, then correct_index and metadata; the first
\* exception ends the call
QuizFromDict(data) ==
    IF "question" \notin DOMAIN data THEN Raise("KeyError")
    ELSE LET question == item_from_dict(data.question) IN
    IF question.raised # "" THEN Raise(question.raised)
    ELSE IF "answers" \notin DOMAIN data THEN Raise("KeyError")
    ELSE LET answers == [i \in 1..Len(data.answers) |-> item_from_dict(data.answers[i])]
             failed == {i \in 1..Len(data.answers) : answers[i].raised # ""}
         IN
    IF failed # {}
    THEN Raise(answers[CHOOSE i \in failed : \A j \in failed : i <= j].raised)
    ELSE IF "correct_index" \notin DOMAIN data THEN Raise("KeyError")
    ELSE QuizTemplateInit(question.value,
                          [i \in 1..Len(data.answers) |-> answers[i].value],
                          data.correct_index,
                          DictGet(data, "metadata", NoMetadata))

\* the error texts of the quiz endpoints; the two that end in str(e) are kept
\* to their fixed part
QuestionRequired == "question is required"
AnswersRequired == "answers is required"
CorrectIndexRequired == "correct_index is required"
InvalidQuizStructure == "Invalid quiz structure"
InvalidQuizData == "Invalid quiz data"
FailedToCreateQuiz == "Failed to create quiz"
QuizNotFound == "Quiz not found"

\* uuid.uuid4(): an identifier no stored quiz has
NewQuizId(store) == <<"uuid", Cardinality(DOMAIN store) + 1>>

QuizIds == {<<"uuid", n>> : n \in 1..MaxQuizzes}

\* server.py create_quiz (286-342) without save_to_file: the store and the
\* response it leaves
CreateQuizResult(store, data, now) ==
    IF Falsy(data) THEN [store |-> store, resp |-> Error(MissingBody, 400)]
    ELSE IF "question" \notin DOMAIN data
    THEN [store |-> store, resp |-> Error(QuestionRequired, 400)]
    ELSE IF "answers" \notin DOMAIN data
    THEN [store |-> store, resp |-> Error(AnswersRequired, 400)]
    ELSE IF "correct_index" \notin DOMAIN data
    THEN [store |-> store, resp |-> Error(CorrectIndexRequired, 400)]
    ELSE LET made == QuizFromDict(data) IN
    IF made.raised = "ValueError"
    THEN [store |-> store, resp |-> Error(InvalidQuizData, 400)]
    ELSE IF made.raised # ""
    THEN [store |-> store, resp |-> Error(FailedToCreateQuiz, 500)]
    ELSE IF ~QuizValidate(made.value)
    THEN [store |-> store, resp |-> Error(InvalidQuizStructure, 400)]
    ELSE LET quiz_id == NewQuizId(store)
             quiz_data == [id |-> quiz_id,
                           quiz |-> made.value,
                           created_at |-> now,
                           metadata |-> made.value.metadata]
         IN
    [store |-> [q \in DOMAIN store \cup {quiz_id} |->
                   IF q = quiz_id THEN quiz_data ELSE store[q]],
     resp |-> Success([quiz_id |-> quiz_id,
                       message |-> "Quiz created successfully",
                       saved_to_file |-> FALSE,
                       file_path |-> None,
                       created_at |-> IsoFormat(now),
                       question_preview |-> DictGet(data.question, "content", "N/A"),
                       answer_count |-> Len(data.answers)], 201)]

\* server.py get_quiz (361-374): request.args.get('include_solution', 'false')
\* .lower() == 'true'
IncludeSolution(args) ==
    Lower(DictGet(args, "include_solution", <<"f", "a", "l", "s", "e">>))
        = <<"t", "r", "u", "e">>

\* server.py get_quiz (361-374)
GetQuizResult(store, quiz_id, args) ==
    IF quiz_id \notin DOMAIN store THEN Error(QuizNotFound, 404)
    ELSE LET quiz_data == store[quiz_id] IN
        Success([quiz_id |-> quiz_id,
                 quiz |-> QuizToDict(quiz_data.quiz, IncludeSolution(args)),
                 created_at |-> IsoFormat(quiz_data.created_at),
                 metadata |-> quiz_data.metadata], 200)

\* server.py list_quizzes (388-401); the list is kept as the set of its entries
ListQuizzesResult(store) ==
    LET quiz_list == {[quiz_id |-> q,
                       created_at |-> IsoFormat(store[q].created_at),
                       metadata |-> store[q].metadata] : q \in DOMAIN store}
    IN  Success([quizzes |-> quiz_list, total |-> Cardinality(quiz_list)], 200)

\* the item dicts the quiz requests are made of
TextQuestion == [type |-> "text", content |-> "Q"]
TextAnswer == [type |-> "text", content |-> "A", css_class |-> "big"]
ImageAnswer == [type |-> "image", url |-> "i.png", alt |-> "pic"]
VideoAnswer == [type |-> "video", url |-> "v.mp4", autoplay |-> TRUE]
AudioAnswer == [type |-> "audio", url |-> "a.mp3", controls |-> FALSE]
PdfAnswer == [type |-> "pdf", url |-> "d.pdf"]
UntypedAnswer == [content |-> "A"]
TextWithoutContent == [type |-> "text"]

Easy == [difficulty |-> "easy"]

\* the bodies of the quiz-create requests
QuizBodies ==
    {EmptyBody,
     [answers |-> <<TextAnswer>>, correct_index |-> 0],
     [question |-> TextQuestion, correct_index |-> 0],
     [question |-> TextQuestion, answers |-> <<TextAnswer>>],
     [question |-> TextWithoutContent, answers |-> <<>>, correct_index |-> 0],
     [question |-> TextQuestion, answers |-> <<TextWithoutContent>>, correct_index |-> 5],
     [question |-> TextQuestion, answers |-> <<PdfAnswer>>, correct_index |-> 0],
     [question |-> TextQuestion, answers |-> <<UntypedAnswer>>, correct_index |-> 0],
     [question |-> ImageAnswer, answers |-> <<AudioAnswer, VideoAnswer>>,
      correct_index |-> 1, metadata |-> Easy],
     [question |-> VideoAnswer, answers |-> <<ImageAnswer, TextAnswer, AudioAnswer>>,
      correct_index |-> 2]}
    \cup {[question |-> TextQuestion, answers |-> <<>>, correct_index |-> i] : i \in {0, 1}}
    \cup {[question |-> TextQuestion, answers |-> <<TextAnswer, ImageAnswer>>,
           correct_index |-> i] : i \in {-1, 0, 1, 2}}

\* the query strings of the get-quiz requests
QuizArgs ==
    {EmptyBody,
     [include_solution |-> <<"t", "r", "u", "e">>],
     [include_solution |-> <<"T", "R", "U", "E">>],
     [include_solution |-> <<"f", "a", "l", "s", "e">>],
     [include_solution |-> <<"1">>]}

\* POST /quiz/create
CreateQuiz(t) ==
    /\ pc[t] = "idle"
    /\ \E data \in QuizBodies :
        LET out == CreateQuizResult(quizzes, data, clock) IN
        /\ Cardinality(DOMAIN out.store) <= MaxQuizzes
        /\ req' = [req EXCEPT ![t] = [op |-> "quiz_create", room_code |-> <<>>, data |-> data]]
        /\ quizzes' = out.store
        /\ resp' = [resp EXCEPT ![t] = out.resp]
    /\ UNCHANGED <<game_rooms, room_lock, clock, pc, local, found, overlap, removed, last_list>>

\* GET /quiz/<quiz_id>
GetQuiz(t) ==
    /\ pc[t] = "idle"
    /\ \E quiz_id \in QuizIds, args \in QuizArgs :
        /\ req' = [req EXCEPT ![t] =
                      [op |-> "quiz_get", room_code |-> quiz_id, data |-> args]]
        /\ resp' = [resp EXCEPT ![t] = GetQuizResult(quizzes, quiz_id, args)]
    /\ UNCHANGED <<game_rooms, room_lock, clock, pc, local, found, overlap, removed, last_list,
                   quizzes>>

\* GET /quizzes
ListQuizzes(t) ==
    /\ pc[t] = "idle"
    /\ req' = [req EXCEPT ![t] = [op |-> "quiz_list", room_code |-> <<>>, data |-> EmptyBody]]
    /\ resp' = [resp EXCEPT ![t] = ListQuizzesResult(quizzes)]
    /\ UNCHANGED <<game_rooms, room_lock, clock, pc, local, found, overlap, removed, last_list,
                   quizzes>>

\* the quiz endpoints, one request at a time, while time passes
QuizNext ==
    \/ Tick
    \/ CreateQuiz(Server)
    \/ GetQuiz(Server)
    \/ ListQuizzes(Server)

QuizSpec == Init /\ [][QuizNext]_vars

---------------------------------------------------------------------------
(* Properties of the quiz endpoints.                                       *)

\* the step of thread t is a quiz-create request
CreatesQuiz(t) == req'[t].op = "quiz_create" /\ clock' = clock

\* the body has an empty answers list, or a correct_index outside
\* 0..len(answers)-1
EmptyAnswersOrIndexOutOfRange(data) ==
    /\ "answers" \in DOMAIN data
    /\ "correct_index" \in DOMAIN data
    /\ \/ Len(data.answers) = 0
       \/ ~(0 <= data.correct_index /\ data.correct_index < Len(data.answers))

\* every item dict of the body has its type among the four kinds and the
\* field its class requires
WellFormedItem(item) ==
    /\ "type" \in DOMAIN item
    /\ \/ item.type = "text" /\ "content" \in DOMAIN item
       \/ item.type \in {"image", "video", "audio"} /\ "url" \in DOMAIN item

WellFormedItems(data) ==
    /\ "question" \in DOMAIN data => WellFormedItem(data.question)
    /\ \A i \in 1..Len(data.answers) : WellFormedItem(data.answers[i])

\* C33: a quiz-create request whose answers list is empty or whose
\* correct_index lies outside 0..len(answers)-1 is answered with status 400
\* and adds no entry to the quiz store.
C33_InvalidQuizRejected ==
    [][\A t \in Threads :
          (CreatesQuiz(t) /\ EmptyAnswersOrIndexOutOfRange(req'[t].data)) =>
              /\ resp'[t].status = 400
              /\ quizzes' = quizzes]_vars

\* C33, the part that holds (a): such a request never adds an entry, and is
\* answered with 400 when its items are well formed.
C33_InvalidQuizAddsNothing ==
    [][\A t \in Threads :
          (CreatesQuiz(t) /\ EmptyAnswersOrIndexOutOfRange(req'[t].data)) =>
              /\ quizzes' = quizzes
              /\ resp'[t].status \in {400, 500}
              /\ WellFormedItems(req'[t].data) => resp'[t].status = 400]_vars

\* C33, the part that holds (b): every quiz held in the store satisfies
\* 0 <= correct_index < len(answers).
C33_StoredQuizzesInRange ==
    \A q \in DOMAIN quizzes :
        /\ 0 <= quizzes[q].quiz.correct_index
        /\ quizzes[q].quiz.correct_index < Len(quizzes[q].quiz.answers)

\* a request with an empty answers list has been answered with 500
C33_Answered500 ==
    /\ req[Server].op = "quiz_create"
    /\ EmptyAnswersOrIndexOutOfRange(req[Server].data)
    /\ resp[Server].status = 500

\* the query string carries include_solution=true, in either case of each
\* letter
CarriesIncludeSolution(args) ==
    /\ "include_solution" \in DOMAIN args
    /\ Len(args.include_solution) = 4
    /\ args.include_solution[1] \in {"t", "T"}
    /\ args.include_solution[2] \in {"r", "R"}
    /\ args.include_solution[3] \in {"u", "U"}
    /\ args.include_solution[4] \in {"e", "E"}

\* the store in which the quiz under quiz_id has correct_index j and is
\* otherwise the same
WithCorrectIndex(store, quiz_id, j) ==
    [store EXCEPT ![quiz_id].quiz.correct_index = j]

\* quizzes a and b of the store differ in correct_index and in nothing else
DifferOnlyInCorrectIndex(a, b) ==
    /\ quizzes[a].quiz.correct_index # quizzes[b].quiz.correct_index
    /\ quizzes[a].quiz.question = quizzes[b].quiz.question
    /\ quizzes[a].quiz.answers = quizzes[b].quiz.answers
    /\ quizzes[a].quiz.metadata = quizzes[b].quiz.metadata

\* C34: the serialized form of a quiz contains correct_index if and only if
\* include_solution is true: to_dict(include_solution=False) never has the
\* key, a get-quiz response has it exactly when the request carries
\* include_solution=true, and without that flag the response to a get is the
\* one the same store would give with any other correct_index in that quiz;
\* two stored quizzes that differ only in correct_index are then serialized
\* alike.
C34_SolutionOnlyOnRequest ==
    /\ \A q \in DOMAIN quizzes :
          /\ "correct_index" \notin DOMAIN QuizToDict(quizzes[q].quiz, FALSE)
          /\ "correct_index" \in DOMAIN QuizToDict(quizzes[q].quiz, TRUE)
          /\ QuizToDict(quizzes[q].quiz, TRUE).correct_index = quizzes[q].quiz.correct_index
    /\ \A t \in Threads :
          (req[t].op = "quiz_get" /\ resp[t].status = 200) =>
              /\ "correct_index" \in DOMAIN resp[t].body.quiz
                    <=> CarriesIncludeSolution(req[t].data)
              /\ ~CarriesIncludeSolution(req[t].data) =>
                    \A j \in 0..(Len(quizzes[req[t].room_code].quiz.answers) - 1) :
                        resp[t] = GetQuizResult(WithCorrectIndex(quizzes, req[t].room_code, j),
                                                req[t].room_code, req[t].data)
    /\ \A a, b \in DOMAIN quizzes, args \in QuizArgs :
          (DifferOnlyInCorrectIndex(a, b) /\ ~CarriesIncludeSolution(args)) =>
              /\ GetQuizResult(quizzes, a, args).body.quiz
                    = GetQuizResult(quizzes, b, args).body.quiz
              /\ GetQuizResult(quizzes, a, args).body.metadata
                    = GetQuizResult(quizzes, b, args).body.metadata

\* two stored quizzes differ only in correct_index and one of them has been
\* read without the flag
C34_Witness ==
    /\ \E a, b \in DOMAIN quizzes : DifferOnlyInCorrectIndex(a, b)
    /\ req[Server].op = "quiz_get"
    /\ resp[Server].status = 200
    /\ ~CarriesIncludeSolution(req[Server].data)
    /\ "include_solution" \in DOMAIN req[Server].data

\* the item dicts of a request body, the question first
ItemsOf(data) ==
    (IF "question" \in DOMAIN data THEN <<data.question>> ELSE <<>>)
        \o (IF "answers" \in DOMAIN data THEN data.answers ELSE <<>>)

FourKinds == {"text", "image", "video", "audio"}

\* the classes of the items of a quiz
ClassesOf(quiz) ==
    {quiz.question.cls} \cup {quiz.answers[i].cls : i \in 1..Len(quiz.answers)}

\* the locals of examples.py example_serialization, and the item dict and
\* item that item_from_dict is applied to
SerLocal(quiz, data) ==
    [original_quiz |-> quiz, client_data |-> None, storage_data |-> None,
     loaded_quiz |-> None, item_data |-> data, item |-> None]

\* the quizzes have at most MaxAnswers answers
MaxAnswers == 2

\* items as the constructors of items.py build them
ExampleItems ==
    {TextItem("Q", ""), TextItem("A", "big"),
     ImageItem("i.png", "pic", "", "300px", ""),
     VideoItem("v.mp4", "t.png", "", TRUE, FALSE),
     AudioItem("a.mp3", "wide", FALSE, TRUE)}

\* the quizzes the constructor accepts, of items of the four kinds
ExampleQuizzes ==
    {made.value : made \in
        {m \in {QuizTemplateInit(question, answers, correct_index, metadata) :
                    question \in ExampleItems,
                    answers \in UNION {[1..n -> ExampleItems] : n \in 0..MaxAnswers},
                    correct_index \in -1..MaxAnswers,
                    metadata \in {NoMetadata, Easy}} : m.raised = ""}}

\* the item dicts given to item_from_dict
ExampleItemData ==
    {TextQuestion, TextAnswer, ImageAnswer, VideoAnswer, AudioAnswer,
     PdfAnswer, UntypedAnswer, TextWithoutContent}

\* examples.py example_serialization (188-221) for any valid quiz
SerInit ==
    /\ game_rooms = [code \in {} |-> NoRoom]
    /\ room_lock = Free
    /\ clock = 0
    /\ pc = [t \in Threads |-> IF t = Server THEN "client_data" ELSE "idle"]
    /\ req = [t \in Threads |-> ListRequest]
    /\ \E quiz \in ExampleQuizzes, data \in ExampleItemData :
          local = [t \in Threads |-> IF t = Server THEN SerLocal(quiz, data) ELSE NoLocal]
    /\ resp = [t \in Threads |-> NoResp]
    /\ found = [t \in Threads |-> NoRoom]
    /\ overlap = [t \in Threads |-> {}]
    /\ removed = [t \in Threads |-> 0]
    /\ last_list = NoList
    /\ quizzes = [quiz_id \in {} |-> NoRoom]

\* one statement of the example: from label `from` to label `to`, with the
\* new locals
SerStep(from, to, new) ==
    /\ pc[Server] = from
    /\ pc' = [pc EXCEPT ![Server] = to]
    /\ local' = [local EXCEPT ![Server] = new]
    /\ UNCHANGED <<game_rooms, room_lock, clock, req, resp, found, overlap, removed, last_list,
                   quizzes>>

\* examples.py 206: client_data = original_quiz.to_dict(include_solution=False)
ClientData ==
    SerStep("client_data", "storage_data",
            [local[Server] EXCEPT
                !.client_data = QuizToDict(local[Server].original_quiz, FALSE)])

\* examples.py 212: storage_data = original_quiz.to_dict(include_solution=True)
StorageData ==
    SerStep("storage_data", "loaded_quiz",
            [local[Server] EXCEPT
                !.storage_data = QuizToDict(local[Server].original_quiz, TRUE)])

\* examples.py 218: loaded_quiz = QuizTemplate.from_dict(storage_data)
LoadedQuiz ==
    SerStep("loaded_quiz", "item",
            [local[Server] EXCEPT
                !.loaded_quiz = QuizFromDict(local[Server].storage_data)])

\* items.py 225: item_from_dict(item_data)
ItemFromDict ==
    SerStep("item", "done",
            [local[Server] EXCEPT !.item = item_from_dict(local[Server].item_data)])

SerNext ==
    \/ ClientData
    \/ StorageData
    \/ LoadedQuiz
    \/ ItemFromDict

SerializationSpec == SerInit /\ [][SerNext]_vars

\* C35: serialization round-trips: for every valid quiz q built from text,
\* image, video and audio items, QuizTemplate.from_dict(q.to_dict(True))
\* succeeds and its to_dict(True) equals q.to_dict(True); item_from_dict
\* raises an error for every item dict whose type is none of the four kinds.
C35_RoundTrip ==
    /\ pc[Server] \in {"item", "done"} =>
          /\ local[Server].loaded_quiz.raised = ""
          /\ QuizToDict(local[Server].loaded_quiz.value, TRUE)
                = QuizToDict(local[Server].original_quiz, TRUE)
    /\ pc[Server] = "done" =>
          (DictGet(local[Server].item_data, "type", None) \notin FourKinds
              => local[Server].item.raised = "ValueError")

\* a quiz with items of three classes, non-default fields and metadata has
\* gone through to_dict and from_dict, and an item dict of type pdf through
\* item_from_dict
C35_Witness ==
    /\ pc[Server] = "done"
    /\ Cardinality(ClassesOf(local[Server].original_quiz)) = 3
    /\ \E i \in 1..Len(local[Server].original_quiz.answers) :
          /\ local[Server].original_quiz.answers[i].cls = "VideoItem"
          /\ local[Server].original_quiz.answers[i].autoplay
    /\ local[Server].original_quiz.metadata = Easy
    /\ local[Server].original_quiz.correct_index = 1
    /\ DictGet(local[Server].item_data, "type", None) = "pdf"
    /\ local[Server].item.raised = "ValueError"

\* C35 at the endpoints: every stored quiz round-trips, and a create request
\* whose first unreadable item has a type outside the four kinds is refused
\* as invalid quiz data.
C35_StoredRoundTrip ==
    /\ \A q \in DOMAIN quizzes :
          LET d == QuizToDict(quizzes[q].quiz, TRUE)
              back == QuizFromDict(d)
          IN  /\ back.raised = ""
              /\ QuizToDict(back.value, TRUE) = d
    /\ \A t \in Threads :
          req[t].op = "quiz_create" =>
              LET items == ItemsOf(req[t].data)
                  unread == {i \in 1..Len(items) : item_from_dict(items[i]).raised # ""}
              IN  /\ \A i \in 1..Len(items) :
                        DictGet(items[i], "type", None) \notin FourKinds =>
                            item_from_dict(items[i]).raised = "ValueError"
                  /\ \A i \in unread :
                        ( /\ {"question", "answers", "correct_index"} \subseteq DOMAIN req[t].data
                          /\ \A j \in unread : i <= j
                          /\ DictGet(items[i], "type", None) \notin FourKinds )
                        => /\ resp[t].status = 400
                           /\ resp[t].error = InvalidQuizData

\* quizzes of all four kinds of item are stored, one with metadata and
\* non-default fields, and a request with an item of type pdf has been refused
C35_StoredWitness ==
    /\ UNION {ClassesOf(quizzes[q].quiz) : q \in DOMAIN quizzes}
          = {"TextItem", "ImageItem", "VideoItem", "AudioItem"}
    /\ \E q \in DOMAIN quizzes : quizzes[q].quiz.metadata # NoMetadata
    /\ req[Server].op = "quiz_create"
    /\ \E i \in 1..Len(ItemsOf(req[Server].data)) :
          DictGet(ItemsOf(req[Server].data)[i], "type", None) = "pdf"
    /\ resp[Server].error = InvalidQuizData

====
